---- MODULE Spec2Model ----
(***************************************************************************)
(* Model of the SEFAZ x accounting reconciliation application.             *)
(*                                                                         *)
(* A text is a sequence of characters; a character is a one-character     *)
(* string, except that an accented letter is written as an ASCII token    *)
(* ("c-cedilla", "a-tilde", ...).  The JavaScript value undefined (a hole  *)
(* of a sparse row, an absent cell) is the text Undefined.                 *)
(*                                                                         *)
(* The repository holds two revisions of the App component: src/App.tsx,   *)
(* whose handleCompare reports the SEFAZ records only, and an earlier one  *)
(* (part_002) whose handleCompare deletes matched keys from the map and    *)
(* then reports the ledger records left in it.  The variable build says    *)
(* which revision runs; everything else is common to both.                 *)
(*                                                                         *)
(* An upload handler is two steps, split at its await: handle...Upload     *)
(* clears the error and starts the parse, resume...Upload runs when the    *)
(* promise settles.  A call with an empty file list returns at once and    *)
(* changes nothing, so it is not an action.                                *)
(*                                                                         *)
(* The functions of utils and the two parsers are also run on their own   *)
(* (SpecUtils, SpecParseAccounting, SpecParseSefaz, and SpecParse for the  *)
(* two parsers side by side): input is the argument of one call and output *)
(* what the call returned.                                                 *)
(***************************************************************************)
EXTENDS Integers, Sequences, FiniteSets, TLC

VARIABLES
    build,                \* which revision of the App component runs
    accountingData,       \* useState<AccountingRecord[]>
    sefazData,            \* useState<SefazRecord[]>
    results,              \* useState<ComparisonResult[]>
    isCompared,           \* useState(false)
    currentPage,          \* useState(1)
    accountingFileName,   \* useState('')
    sefazFileName,        \* useState('')
    error,                \* useState<string | null>(null)
    pending,              \* parses in flight (promises not yet settled)
    sortConfig,           \* useState<SortConfig | null>(null) (src/App.tsx only)
    filterText,           \* useState('')
    statusFilter,         \* useState<string>('all')
    lastRun,              \* history: the two lists read by the last completed comparison
    selected,             \* history: the files chosen last at each of the two inputs
                          \* (recorded in SpecUpload only)
    input,                \* the argument of a function of utils or services/parser run on its
                          \* own: a text, or the file (its format and content) a parser reads
    output                \* what that function returned (NoOutput before the call)

\* the state of the filters and of the sort
viewVars == <<sortConfig, filterText, statusFilter>>

vars == <<build, accountingData, sefazData, results, isCompared, currentPage,
          accountingFileName, sefazFileName, error, pending, lastRun, selected,
          viewVars, input, output>>

-----------------------------------------------------------------------------
(* Characters and the string methods the program uses                      *)

Undefined == <<"undefined-value">>

Digits == {"0", "1", "2", "3", "4", "5", "6", "7", "8", "9"}

LowerLetters == {"a", "b", "c", "d", "e", "f", "g", "h", "i", "j", "k", "l", "m",
                 "n", "o", "p", "q", "r", "s", "t", "u", "v", "w", "x", "y", "z"}

WhiteSpace == {" "}

\* String.prototype.toLowerCase, one character
LowerChar(c) ==
    CASE c = "A" -> "a" [] c = "B" -> "b" [] c = "C" -> "c" [] c = "D" -> "d"
      [] c = "E" -> "e" [] c = "F" -> "f" [] c = "G" -> "g" [] c = "H" -> "h"
      [] c = "I" -> "i" [] c = "J" -> "j" [] c = "K" -> "k" [] c = "L" -> "l"
      [] c = "M" -> "m" [] c = "N" -> "n" [] c = "O" -> "o" [] c = "P" -> "p"
      [] c = "Q" -> "q" [] c = "R" -> "r" [] c = "S" -> "s" [] c = "T" -> "t"
      [] c = "U" -> "u" [] c = "V" -> "v" [] c = "W" -> "w" [] c = "X" -> "x"
      [] c = "Y" -> "y" [] c = "Z" -> "z"
      [] c = "C-cedilla" -> "c-cedilla"
      [] c = "A-tilde" -> "a-tilde"
      [] c = "A-acute" -> "a-acute"
      [] c = "E-acute" -> "e-acute"
      [] OTHER -> c

\* String.prototype.toLowerCase
toLowerCase(s) == [i \in 1..Len(s) |-> LowerChar(s[i])]

\* normalize("NFD") followed by the removal of the combining marks
\* U+0300..U+036F: an accented letter becomes its base letter
StripAccent(c) ==
    CASE c = "c-cedilla" -> "c" [] c = "C-cedilla" -> "C"
      [] c = "a-tilde" -> "a"   [] c = "A-tilde" -> "A"
      [] c = "a-acute" -> "a"   [] c = "A-acute" -> "A"
      [] c = "e-acute" -> "e"   [] c = "E-acute" -> "E"
      [] OTHER -> c

RECURSIVE TrimStart(_)
TrimStart(s) ==
    IF s # <<>> /\ Head(s) \in WhiteSpace THEN TrimStart(Tail(s)) ELSE s

RECURSIVE TrimEnd(_)
TrimEnd(s) ==
    IF s # <<>> /\ s[Len(s)] \in WhiteSpace THEN TrimEnd(SubSeq(s, 1, Len(s) - 1)) ELSE s

\* String.prototype.trim
trim(s) == TrimEnd(TrimStart(s))

\* sub occurs in s starting at position i
MatchesAt(s, sub, i) ==
    /\ i + Len(sub) - 1 <= Len(s)
    /\ \A j \in 1..Len(sub) : s[i + j - 1] = sub[j]

\* String.prototype.includes
includes(s, sub) == \E i \in 1..(Len(s) + 1) : MatchesAt(s, sub, i)

\* position of the first occurrence of sub in s, 0 when there is none
IndexOf(s, sub) ==
    IF includes(s, sub)
    THEN CHOOSE i \in 1..(Len(s) + 1) :
            MatchesAt(s, sub, i) /\ \A k \in 1..(i - 1) : ~MatchesAt(s, sub, k)
    ELSE 0

\* String.prototype.replace with a string pattern: the first occurrence only
replaceFirst(s, sub, by) ==
    LET i == IndexOf(s, sub) IN
    IF i = 0 THEN s
    ELSE SubSeq(s, 1, i - 1) \o by \o SubSeq(s, i + Len(sub), Len(s))

\* replace(/\./g, ''): every occurrence of one character
RemoveChar(s, c) == SelectSeq(s, LAMBDA x : x # c)

\* JavaScript truthiness of a string or undefined
Truthy(s) == s # Undefined /\ s # <<>>

-----------------------------------------------------------------------------
(* utils: normalizeKey, extractDateFromKey, normalizeHeader                *)

\* mutant: the pattern keeps the lower-case letters too (/[^0-9a-z]/g)
normalizeKey_keepLetters(key) ==
    IF ~Truthy(key) THEN <<>>
    ELSE SelectSeq(key, LAMBDA c : c \in Digits \cup LowerLetters)

normalizeKey(key) ==
    IF ~Truthy(key) THEN <<>>
    ELSE SelectSeq(key, LAMBDA c : c \in Digits)

\* mutant: the length test lets longer keys through (< 44 for !== 44)
extractDateFromKey_atLeast44(key) ==
    LET cleanKey == normalizeKey(key) IN
    IF Len(cleanKey) < 44 THEN <<>>
    ELSE LET yy == SubSeq(cleanKey, 3, 4)
             mm == SubSeq(cleanKey, 5, 6)
         IN mm \o <<"/", "2", "0">> \o yy

extractDateFromKey(key) ==
    LET cleanKey == normalizeKey(key) IN
    IF Len(cleanKey) # 44 THEN <<>>
    ELSE LET yy == SubSeq(cleanKey, 3, 4)
             mm == SubSeq(cleanKey, 5, 6)
         IN mm \o <<"/", "2", "0">> \o yy

\* mutant: the pattern has no +, each other character becomes an underscore
RECURSIVE CollapseNonAlnum_each(_, _)
CollapseNonAlnum_each(s, inRun) ==
    IF s = <<>> THEN <<>>
    ELSE IF Head(s) \in LowerLetters \cup Digits
         THEN <<Head(s)>> \o CollapseNonAlnum_each(Tail(s), FALSE)
         ELSE <<"_">> \o CollapseNonAlnum_each(Tail(s), TRUE)

\* replace(/[^a-z0-9]+/g, "_"): each maximal run of other characters
\* becomes one underscore
RECURSIVE CollapseNonAlnum(_, _)
CollapseNonAlnum(s, inRun) ==
    IF s = <<>> THEN <<>>
    ELSE IF Head(s) \in LowerLetters \cup Digits
         THEN <<Head(s)>> \o CollapseNonAlnum(Tail(s), FALSE)
         ELSE IF inRun THEN CollapseNonAlnum(Tail(s), TRUE)
              ELSE <<"_">> \o CollapseNonAlnum(Tail(s), TRUE)

normalizeHeader(text) ==
    IF ~Truthy(text) THEN <<>>
    ELSE LET lowered  == toLowerCase(trim(text))
             stripped == [i \in 1..Len(lowered) |-> StripAccent(lowered[i])]
         IN CollapseNonAlnum(stripped, FALSE)

-----------------------------------------------------------------------------
(* Numbers.  A JavaScript number that a decimal literal denotes is the     *)
(* record [nan, neg, mant, scale] with value (-1)^neg * mant / 10^scale,   *)
(* kept in lowest terms (no trailing zero in the fraction); NaN is its own *)
(* value.                                                                  *)

NaN == [nan |-> TRUE, neg |-> FALSE, mant |-> 0, scale |-> 0]

RECURSIVE Reduce(_, _)
Reduce(mant, scale) ==
    IF scale > 0 /\ mant % 10 = 0 THEN Reduce(mant \div 10, scale - 1)
    ELSE <<mant, scale>>

Number(neg, mant, scale) ==
    LET r == Reduce(mant, scale) IN
    [nan |-> FALSE, neg |-> (neg /\ r[1] # 0), mant |-> r[1], scale |-> r[2]]

Zero == Number(FALSE, 0, 0)

DigitValue(c) ==
    CASE c = "0" -> 0 [] c = "1" -> 1 [] c = "2" -> 2 [] c = "3" -> 3 [] c = "4" -> 4
      [] c = "5" -> 5 [] c = "6" -> 6 [] c = "7" -> 7 [] c = "8" -> 8 [] c = "9" -> 9

RECURSIVE DigitsToNat(_, _)
DigitsToNat(s, acc) ==
    IF s = <<>> THEN acc ELSE DigitsToNat(Tail(s), acc * 10 + DigitValue(Head(s)))

\* the longest prefix of s made of digits
RECURSIVE LeadingDigits(_)
LeadingDigits(s) ==
    IF s # <<>> /\ Head(s) \in Digits THEN <<Head(s)>> \o LeadingDigits(Tail(s)) ELSE <<>>

\* parseFloat: leading white space skipped, optional sign, the longest
\* prefix that is a decimal literal; NaN when there is none.  (Exponents
\* and "Infinity" are outside the alphabet of the value cells modelled.)
parseFloat(s) ==
    LET t        == TrimStart(s)
        signed   == t # <<>> /\ Head(t) \in {"+", "-"}
        neg      == t # <<>> /\ Head(t) = "-"
        u        == IF signed THEN Tail(t) ELSE t
        intPart  == LeadingDigits(u)
        rest     == SubSeq(u, Len(intPart) + 1, Len(u))
        fracPart == IF rest # <<>> /\ Head(rest) = "." THEN LeadingDigits(Tail(rest)) ELSE <<>>
    IN IF intPart = <<>> /\ fracPart = <<>> THEN NaN
       ELSE Number(neg, DigitsToNat(intPart \o fracPart, 0), Len(fracPart))

-----------------------------------------------------------------------------
(* services/parser: parseAccountingFile                                    *)
(*                                                                         *)
(* jsonData is what sheet_to_json(header: 1, raw: false) returns: a        *)
(* sequence of rows, a row a sequence of cells, a cell a text or a hole    *)
(* (Undefined).  Column indexes are 1-based here: NotFound stands for the  *)
(* -1 of findIndex, and Throws for a findIndex whose callback reads        *)
(* .includes of a hole (a TypeError).                                      *)

NotFound == 0
Throws == -1

Cell(row, idx) == IF idx \in 1..Len(row) THEN row[idx] ELSE Undefined

isChaveHeader(h) ==
    includes(h, <<"c", "h", "a", "v", "e">>)
    \/ includes(h, <<"c", "h", "a", "v", "e", "n", "f", "e">>)

isNumeroHeader(h) ==
    \/ h = <<"n", "u", "m", "e", "r", "o">>
    \/ h = <<"n", "u", "m", "e", "r", "o", "_", "n", "o", "t", "a">>
    \/ includes(h, <<"n", "o", "t", "a">>)

isValorHeader(h) ==
    includes(h, <<"v", "a", "l", "o", "r">>)
    \/ includes(h, <<"c", "o", "n", "t", "a", "b", "i", "l">>)

isDataHeader(h) ==
    includes(h, <<"e", "m", "i", "s", "s", "a", "o">>)
    \/ includes(h, <<"d", "a", "t", "a">>)

\* the callback of the findIndex that resolves one column role
headerMatches(role, h) ==
    CASE role = "chave" -> isChaveHeader(h)
      [] role = "numero" -> isNumeroHeader(h)
      [] role = "valor" -> isValorHeader(h)
      [] role = "data" -> isDataHeader(h)

RECURSIVE FindIndexFrom(_, _, _)
FindIndexFrom(headers, role, i) ==
    IF i > Len(headers) THEN NotFound
    ELSE IF headers[i] = Undefined THEN Throws
    ELSE IF headerMatches(role, headers[i]) THEN i
    ELSE FindIndexFrom(headers, role, i + 1)

\* mutant: the last matching column (findLastIndex for findIndex)
findIndex_last(headers, role) ==
    LET hits == {i \in 1..Len(headers) :
                    headers[i] # Undefined /\ headerMatches(role, headers[i])}
    IN IF \E i \in 1..Len(headers) : headers[i] = Undefined THEN Throws
       ELSE IF hits = {} THEN NotFound
       ELSE CHOOSE i \in hits : \A j \in hits : j <= i

\* Array.prototype.findIndex over the normalized header row
findIndex(headers, role) == FindIndexFrom(headers, role, 1)

\* row[idxValor]?.toString().replace('R$', '').replace(/\./g, '').replace(',', '.') || '0'
valorText(cell) ==
    LET munged == IF cell = Undefined THEN Undefined
                  ELSE replaceFirst(RemoveChar(replaceFirst(cell, <<"R", "$">>, <<>>), "."),
                                    <<",">>, <<".">>)
    IN IF Truthy(munged) THEN munged ELSE <<"0">>

\* mutant: the date of the key comes first, the date cell is the fallback
accountingRecord_keyDateFirst(row, idxChave, idxNumero, idxValor, idxData) ==
    LET chaveStr == normalizeKey(Cell(row, idxChave))
        rawData  == IF idxData # NotFound THEN Cell(row, idxData) ELSE <<>>
        keyDate  == extractDateFromKey(chaveStr)
        dataEmissao == IF Truthy(keyDate) THEN keyDate
                       ELSE IF Truthy(rawData) THEN rawData ELSE <<>>
    IN [id          |-> chaveStr,
        chave       |-> chaveStr,
        numero      |-> IF idxNumero # NotFound THEN Cell(row, idxNumero) ELSE <<>>,
        valor       |-> IF idxValor # NotFound THEN parseFloat(valorText(Cell(row, idxValor)))
                        ELSE Zero,
        dataEmissao |-> dataEmissao,
        sourceRow   |-> row]

\* the record pushed for one data row that passed the two skips
accountingRecord(row, idxChave, idxNumero, idxValor, idxData) ==
    LET chaveStr == normalizeKey(Cell(row, idxChave))
        rawData  == IF idxData # NotFound THEN Cell(row, idxData) ELSE <<>>
        dataEmissao == IF Truthy(rawData) THEN rawData ELSE extractDateFromKey(chaveStr)
    IN [id          |-> chaveStr,
        chave       |-> chaveStr,
        numero      |-> IF idxNumero # NotFound THEN Cell(row, idxNumero) ELSE <<>>,
        valor       |-> IF idxValor # NotFound THEN parseFloat(valorText(Cell(row, idxValor)))
                        ELSE Zero,
        dataEmissao |-> dataEmissao,
        sourceRow   |-> row]

\* mutant: a row whose key an earlier row of the sheet carries is dropped
RECURSIVE accountingRows_dedup(_, _, _, _, _, _)
accountingRows_dedup(jsonData, i, idxChave, idxNumero, idxValor, idxData) ==
    IF i > Len(jsonData) THEN <<>>
    ELSE LET row == jsonData[i]
             skip == \/ Len(row) = 0
                     \/ ~Truthy(Cell(row, idxChave))
                     \/ \E j \in 2..(i - 1) :
                            normalizeKey(Cell(jsonData[j], idxChave))
                                = normalizeKey(Cell(row, idxChave))
         IN (IF skip THEN <<>>
             ELSE <<accountingRecord(row, idxChave, idxNumero, idxValor, idxData)>>)
            \o accountingRows_dedup(jsonData, i + 1, idxChave, idxNumero, idxValor, idxData)

\* the for loop over the rows i .. Len(jsonData) (i is 1-based: row 2 is index 1)
RECURSIVE accountingRows(_, _, _, _, _, _)
accountingRows(jsonData, i, idxChave, idxNumero, idxValor, idxData) ==
    IF i > Len(jsonData) THEN <<>>
    ELSE LET row == jsonData[i]
             skip == Len(row) = 0 \/ ~Truthy(Cell(row, idxChave))
         IN (IF skip THEN <<>>
             ELSE <<accountingRecord(row, idxChave, idxNumero, idxValor, idxData)>>)
            \o accountingRows(jsonData, i + 1, idxChave, idxNumero, idxValor, idxData)

\* jsonData[0].map(normalizeHeader): map leaves the holes of the row in place
normalizedHeaders(jsonData) ==
    [i \in 1..Len(jsonData[1]) |->
        IF jsonData[1][i] = Undefined THEN Undefined
        ELSE normalizeHeader(jsonData[1][i])]

\* the four column indexes, each found by its own findIndex over the
\* normalized header row
columnIndexes(jsonData) ==
    LET headers == normalizedHeaders(jsonData) IN
    [chave  |-> findIndex(headers, "chave"),
     numero |-> findIndex(headers, "numero"),
     valor  |-> findIndex(headers, "valor"),
     data   |-> findIndex(headers, "data")]

\* the promise of parseAccountingFile: resolved with records, or rejected
parseAccountingFile(jsonData) ==
    IF Len(jsonData) = 0
    THEN [ok |-> FALSE, records |-> <<>>, message |-> "Arquivo vazio ou invalido."]
    ELSE LET columns   == columnIndexes(jsonData)
             idxChave  == columns.chave
             idxNumero == columns.numero
             idxValor  == columns.valor
             idxData   == columns.data
         IN IF Throws \in {idxChave, idxNumero, idxValor, idxData}
            THEN [ok |-> FALSE, records |-> <<>>, message |-> "TypeError"]
            ELSE IF idxChave = NotFound
            THEN [ok |-> FALSE, records |-> <<>>,
                  message |-> "Coluna 'Chave' ou 'ChaveNFe' nao encontrada no arquivo contabil."]
            ELSE [ok |-> TRUE,
                  records |-> accountingRows(jsonData, 2, idxChave, idxNumero, idxValor, idxData),
                  message |-> ""]

-----------------------------------------------------------------------------
(* services/parser: parseSefazHtml                                         *)
(*                                                                         *)
(* The parsed document is the sequence of its tables in document order; a  *)
(* table is the sequence of its rows, a row the sequence of the            *)
(* textContent of its cells.                                               *)

HeaderSearchRows == 5
MinCells == 3
MinKeyLength == 20

requiredHeaders == {<<"c", "h", "a", "v", "e">>, <<"s", "i", "t", "u", "a", "c", "a", "o">>}

cellTexts(row) == [i \in 1..Len(row) |-> normalizeHeader(row[i])]

\* mutant: one required header is enough (some for every)
hasAll_some(row) ==
    \E req \in requiredHeaders : \E i \in 1..Len(row) : includes(cellTexts(row)[i], req)

hasAll(row) ==
    \A req \in requiredHeaders : \E i \in 1..Len(row) : includes(cellTexts(row)[i], req)

\* mutant: the issuer test lacks its exclusion of 'cnpj'
headerRole_cnpj(txt) ==
    IF includes(txt, <<"c", "h", "a", "v", "e">>) THEN "chave"
    ELSE IF includes(txt, <<"s", "i", "t", "u", "a", "c", "a", "o">>) THEN "situacao"
    ELSE IF includes(txt, <<"n", "u", "m", "e", "r", "o">>) \/ txt = <<"n", "o", "t", "a">>
         THEN "numero"
    ELSE IF includes(txt, <<"s", "e", "r", "i", "e">>) THEN "serie"
    ELSE IF includes(txt, <<"e", "m", "i", "t", "e", "n", "t", "e">>) THEN "emitente"
    ELSE IF includes(txt, <<"d", "a", "t", "a">>)
            \/ includes(txt, <<"e", "m", "i", "s", "s", "a", "o">>) THEN "data"
    ELSE "none"

\* the role the forEach callback assigns to one normalized header cell
headerRole(txt) ==
    IF includes(txt, <<"c", "h", "a", "v", "e">>) THEN "chave"
    ELSE IF includes(txt, <<"s", "i", "t", "u", "a", "c", "a", "o">>) THEN "situacao"
    ELSE IF includes(txt, <<"n", "u", "m", "e", "r", "o">>) \/ txt = <<"n", "o", "t", "a">>
         THEN "numero"
    ELSE IF includes(txt, <<"s", "e", "r", "i", "e">>) THEN "serie"
    ELSE IF includes(txt, <<"e", "m", "i", "t", "e", "n", "t", "e">>)
            /\ ~includes(txt, <<"c", "n", "p", "j">>) THEN "emitente"
    ELSE IF includes(txt, <<"d", "a", "t", "a">>)
            \/ includes(txt, <<"e", "m", "i", "s", "s", "a", "o">>) THEN "data"
    ELSE "none"

HeaderRoles == {"chave", "situacao", "numero", "serie", "emitente", "data"}

\* headerMap after the forEach: a later cell of the same role overwrites an
\* earlier one; NotFound stands for a key the map does not have
buildHeaderMap(row) ==
    [role \in HeaderRoles |->
        LET hits == {i \in 1..Len(row) : headerRole(cellTexts(row)[i]) = role}
        IN IF hits = {} THEN NotFound
           ELSE CHOOSE i \in hits : \A j \in hits : j <= i]

\* the index of the first of the first five rows of a table that has all
\* required headers, NotFound when none has
headerRowOf(table) ==
    LET limit == IF Len(table) < HeaderSearchRows THEN Len(table) ELSE HeaderSearchRows
        hits  == {r \in 1..limit : hasAll(table[r])}
    IN IF hits = {} THEN NotFound
       ELSE CHOOSE r \in hits : \A q \in hits : r <= q

\* mutant: the search goes on after a target is found (no break), so the
\* last table that qualifies is the target
targetTableOf_last(tables) ==
    LET hits == {t \in 1..Len(tables) : headerRowOf(tables[t]) # NotFound}
    IN IF hits = {} THEN NotFound
       ELSE CHOOSE t \in hits : \A u \in hits : u <= t

\* the index of the target table, NotFound when no table qualifies
targetTableOf(tables) ==
    LET hits == {t \in 1..Len(tables) : headerRowOf(tables[t]) # NotFound}
    IN IF hits = {} THEN NotFound
       ELSE CHOOSE t \in hits : \A u \in hits : t <= u

getVal(cells, headerMap, key) ==
    LET idx == headerMap[key] IN
    IF idx # NotFound /\ idx \in 1..Len(cells)
    THEN trim(cells[idx])
    ELSE <<>>

\* mutant: the gate lets keys of exactly 20 digits through (>= for >)
sefazRow_atLeast20(cells, headerMap) ==
    LET keyCell == Cell(cells, headerMap["chave"])
        isHeader == keyCell # Undefined
                    /\ includes(toLowerCase(keyCell), <<"c", "h", "a", "v", "e">>)
        chave == normalizeKey(getVal(cells, headerMap, "chave"))
        rawData == getVal(cells, headerMap, "data")
        data == IF Truthy(rawData) THEN rawData ELSE extractDateFromKey(chave)
    IN IF Len(cells) < MinCells THEN <<>>
       ELSE IF isHeader THEN <<>>
       ELSE IF Truthy(chave) /\ Len(chave) >= MinKeyLength
       THEN << [id        |-> chave,
                chave     |-> chave,
                numero    |-> getVal(cells, headerMap, "numero"),
                serie     |-> getVal(cells, headerMap, "serie"),
                situacao  |-> getVal(cells, headerMap, "situacao"),
                emitente  |-> getVal(cells, headerMap, "emitente"),
                data      |-> data,
                sourceRow |-> cells] >>
       ELSE <<>>

\* the records one row of the target table contributes (none or one)
sefazRow(cells, headerMap) ==
    LET keyCell == Cell(cells, headerMap["chave"])
        isHeader == keyCell # Undefined
                    /\ includes(toLowerCase(keyCell), <<"c", "h", "a", "v", "e">>)
        chave == normalizeKey(getVal(cells, headerMap, "chave"))
        rawData == getVal(cells, headerMap, "data")
        data == IF Truthy(rawData) THEN rawData ELSE extractDateFromKey(chave)
    IN IF Len(cells) < MinCells THEN <<>>
       ELSE IF isHeader THEN <<>>
       ELSE IF Truthy(chave) /\ Len(chave) > MinKeyLength
       THEN << [id        |-> chave,
                chave     |-> chave,
                numero    |-> getVal(cells, headerMap, "numero"),
                serie     |-> getVal(cells, headerMap, "serie"),
                situacao  |-> getVal(cells, headerMap, "situacao"),
                emitente  |-> getVal(cells, headerMap, "emitente"),
                data      |-> data,
                sourceRow |-> cells] >>
       ELSE <<>>

RECURSIVE sefazRows(_, _, _)
sefazRows(rows, i, headerMap) ==
    IF i > Len(rows) THEN <<>>
    ELSE sefazRow(rows[i], headerMap) \o sefazRows(rows, i + 1, headerMap)

\* the promise of parseSefazHtml: resolved with records, or rejected
parseSefazHtml(tables) ==
    LET t == targetTableOf(tables) IN
    IF t = NotFound
    THEN [ok |-> FALSE, records |-> <<>>,
          message |-> "Tabela de notas nao encontrada no HTML. Verifique se salvou a pagina corretamente."]
    ELSE LET targetTable == tables[t]
             headerMap == buildHeaderMap(targetTable[headerRowOf(targetTable)])
         IN [ok |-> TRUE, records |-> sefazRows(targetTable, 1, headerMap), message |-> ""]

-----------------------------------------------------------------------------
(* App: handleCompare, in its two revisions                                *)

MATCHED == "MATCHED"
MISSING_IN_ACCOUNTING == "MISSING_IN_ACCOUNTING"
MISSING_IN_SEFAZ == "MISSING_IN_SEFAZ"
CANCELLED == "CANCELLED"

\* an optional field that is not set (undefined)
NoRecord == [absent |-> TRUE]

\* the error state is null, or the pieces of the message shown
NoError == <<>>
CompareGuardMessage == "Por favor, carregue ambos os arquivos antes de confrontar."

cancelada == <<"c", "a", "n", "c", "e", "l", "a", "d", "a">>
NotInFileText == <<"N", "a-tilde", "o", " ", "e", "n", "c", "o", "n", "t", "r", "a", "d", "a",
                   " ", "n", "o", " ", "a", "r", "q", "u", "i", "v", "o">>

\* mutant: the first item with a key is kept (the map is not overwritten)
mapAccountingGet_firstWins(data, key) ==
    LET hits == {i \in 1..Len(data) : Truthy(data[i].chave) /\ data[i].chave = key}
    IN IF hits = {} THEN NoRecord
       ELSE data[CHOOSE i \in hits : \A j \in hits : i <= j]

\* mapAccounting after the forEach that fills it: the value of a key is the
\* last item with that key; items with an empty key are not entered
mapAccountingGet(data, key) ==
    LET hits == {i \in 1..Len(data) : Truthy(data[i].chave) /\ data[i].chave = key}
    IN IF hits = {} THEN NoRecord
       ELSE data[CHOOSE i \in hits : \A j \in hits : j <= i]

\* the keys of mapAccounting in iteration order: a Map iterates in the
\* order of the first insertion of each key
RECURSIVE mapAccountingKeys(_, _)
mapAccountingKeys(data, i) ==
    IF i > Len(data) THEN <<>>
    ELSE LET k == data[i].chave
             first == Truthy(k) /\ \A j \in 1..(i - 1) : data[j].chave # k
         IN (IF first THEN <<k>> ELSE <<>>) \o mapAccountingKeys(data, i + 1)

\* mutant: the ledger match is tested before the cancellation
sefazResult_matchFirst(sefaz, match) ==
    LET status == IF match # NoRecord THEN MATCHED
                  ELSE IF includes(toLowerCase(sefaz.situacao), cancelada) THEN CANCELLED
                  ELSE MISSING_IN_ACCOUNTING
    IN [id               |-> sefaz.chave,
        chave            |-> sefaz.chave,
        numero           |-> sefaz.numero,
        serie            |-> sefaz.serie,
        data             |-> IF Truthy(sefaz.data) THEN sefaz.data
                             ELSE extractDateFromKey(sefaz.chave),
        valor            |-> IF match # NoRecord THEN match.valor ELSE Zero,
        situacaoSefaz    |-> sefaz.situacao,
        status           |-> status,
        sefazRecord      |-> sefaz,
        accountingRecord |-> match]

\* the object pushed for one SEFAZ record, given what mapAccounting.get returned
sefazResult(sefaz, match) ==
    LET status == IF includes(toLowerCase(sefaz.situacao), cancelada) THEN CANCELLED
                  ELSE IF match # NoRecord THEN MATCHED
                  ELSE MISSING_IN_ACCOUNTING
    IN [id               |-> sefaz.chave,
        chave            |-> sefaz.chave,
        numero           |-> sefaz.numero,
        serie            |-> sefaz.serie,
        data             |-> IF Truthy(sefaz.data) THEN sefaz.data
                             ELSE extractDateFromKey(sefaz.chave),
        valor            |-> IF match # NoRecord THEN match.valor ELSE Zero,
        situacaoSefaz    |-> sefaz.situacao,
        status           |-> status,
        sefazRecord      |-> sefaz,
        accountingRecord |-> match]

\* mutant: each result is put in front of the list (unshift for push)
comparisonApp_unshift(accounting, sefaz) ==
    [i \in 1..Len(sefaz) |->
        sefazResult(sefaz[Len(sefaz) + 1 - i],
                    mapAccountingGet(accounting, sefaz[Len(sefaz) + 1 - i].chave))]

\* src/App.tsx: the comparison list built when both lists are non-empty
comparisonApp(accounting, sefaz) ==
    [i \in 1..Len(sefaz) |-> sefazResult(sefaz[i], mapAccountingGet(accounting, sefaz[i].chave))]

\* the other revision: a matched key is deleted from the map, so the loop
\* carries the set of deleted keys
RECURSIVE sefazLoop002(_, _, _, _)
sefazLoop002(accounting, sefaz, i, deleted) ==
    IF i > Len(sefaz) THEN [comparison |-> <<>>, deleted |-> deleted]
    ELSE LET match == IF sefaz[i].chave \in deleted THEN NoRecord
                      ELSE mapAccountingGet(accounting, sefaz[i].chave)
             r     == sefazResult(sefaz[i], match)
             rest  == sefazLoop002(accounting, sefaz, i + 1,
                                   IF r.status = MATCHED THEN deleted \cup {sefaz[i].chave}
                                   ELSE deleted)
         IN [comparison |-> <<r>> \o rest.comparison, deleted |-> rest.deleted]

\* mutant: the value is the constant 0 of the other push
remainingResult_zeroValor(acc) ==
    [id               |-> acc.chave,
     chave            |-> acc.chave,
     numero           |-> acc.numero,
     serie            |-> <<>>,
     data             |-> IF Truthy(acc.dataEmissao) THEN acc.dataEmissao
                          ELSE extractDateFromKey(acc.chave),
     valor            |-> Zero,
     situacaoSefaz    |-> NotInFileText,
     status           |-> MISSING_IN_SEFAZ,
     sefazRecord      |-> NoRecord,
     accountingRecord |-> acc]

\* mutant: the optional accountingRecord field is not set
remainingResult_noBackref(acc) ==
    [id               |-> acc.chave,
     chave            |-> acc.chave,
     numero           |-> acc.numero,
     serie            |-> <<>>,
     data             |-> IF Truthy(acc.dataEmissao) THEN acc.dataEmissao
                          ELSE extractDateFromKey(acc.chave),
     valor            |-> acc.valor,
     situacaoSefaz    |-> NotInFileText,
     status           |-> MISSING_IN_SEFAZ,
     sefazRecord      |-> NoRecord,
     accountingRecord |-> NoRecord]

\* the object pushed for one accounting record that remained in the map
remainingResult(acc) ==
    [id               |-> acc.chave,
     chave            |-> acc.chave,
     numero           |-> acc.numero,
     serie            |-> <<>>,
     data             |-> IF Truthy(acc.dataEmissao) THEN acc.dataEmissao
                          ELSE extractDateFromKey(acc.chave),
     valor            |-> acc.valor,
     situacaoSefaz    |-> NotInFileText,
     status           |-> MISSING_IN_SEFAZ,
     sefazRecord      |-> NoRecord,
     accountingRecord |-> acc]

RECURSIVE remainingLoop002(_, _, _, _)
remainingLoop002(accounting, keys, i, deleted) ==
    IF i > Len(keys) THEN <<>>
    ELSE (IF keys[i] \in deleted THEN <<>>
          ELSE <<remainingResult(mapAccountingGet(accounting, keys[i]))>>)
         \o remainingLoop002(accounting, keys, i + 1, deleted)

comparison002(accounting, sefaz) ==
    LET loop == sefazLoop002(accounting, sefaz, 1, {})
    IN loop.comparison
       \o remainingLoop002(accounting, mapAccountingKeys(accounting, 1), 1, loop.deleted)

-----------------------------------------------------------------------------
(* Input documents                                                         *)

MaxLedgerRows == 2
MaxSefazRows == 2

Block10 == <<"1", "2", "3", "4", "5", "6", "7", "8", "9", "0">>
Body38 == Block10 \o Block10 \o Block10 \o SubSeq(Block10, 1, 8)

\* 44-digit access keys: UF, YY, MM, then 38 more digits
Key1 == <<"3", "5", "2", "4", "0", "3">> \o Body38
Key2 == <<"3", "5", "2", "3", "1", "1">> \o Body38
Key3 == <<"4", "1", "2", "5", "0", "1">> \o Body38
\* Key1 as it is printed: blocks separated by spaces, Key2 with punctuation
Key1Printed == SubSeq(Key1, 1, 4) \o <<" ">> \o SubSeq(Key1, 5, 24) \o <<" ">> \o SubSeq(Key1, 25, 44)
Key2Printed == <<"N", "F", "e", " ">> \o SubSeq(Key2, 1, 22) \o <<".">> \o SubSeq(Key2, 23, 44) \o <<" ">>
\* keys that are too short to carry a date, and too short for the SEFAZ gate
Key30 == SubSeq(Key3, 1, 30)
Key20 == SubSeq(Key2, 1, 20)
Key21 == SubSeq(Key3, 1, 21)

LedgerHeader == <<<<"C", "h", "a", "v", "e">>, <<"N", "u", "m", "e", "r", "o">>, <<"V", "a", "l", "o", "r">>, <<"E", "m", "i", "s", "s", "a", "o">>>>

LedgerRowSamples ==
    { <<Key1Printed, <<"1", "0", "0">>, <<"R", "$", " ", "1", ".", "2", "3", "4", ",", "5", "6">>, <<"0", "1", "/", "0", "3", "/", "2", "0", "2", "4">>>>,
      <<Key1, <<"1", "0", "1">>, <<"1", "0", ",", "0", "0">>>>,
      <<Key2Printed, Undefined, <<"a", "b", "c">>>>,
      <<<<"s", "/", "n">>, <<"3", "0", "0">>, <<"5", ",", "5">>>>,
      <<Key30, <<"3", "0">>>>,
      <<>> }

RowSeqs(samples, n) == UNION {[1..k -> samples] : k \in 0..n}

\* the grids of the accounting workbooks: the header row, then data rows
LedgerDocs == {<<LedgerHeader>> \o rows : rows \in RowSeqs(LedgerRowSamples, MaxLedgerRows)}

SefazHeader == <<<<"C", "h", "a", "v", "e", " ", "d", "e", " ", "A", "c", "e", "s", "s", "o">>, <<"S", "i", "t", "u", "a", "c-cedilla", "a-tilde", "o">>, <<"N", "u", "m", "e", "r", "o">>, <<"S", "e", "r", "i", "e">>, <<"D", "a", "t", "a", " ", "E", "m", "i", "s", "s", "a", "o">>>>

SefazRowSamples ==
    { <<Key1, <<"A", "u", "t", "o", "r", "i", "z", "a", "d", "a">>, <<"1", "0", "0">>, <<"1">>, <<>>>>,
      <<Key1Printed, <<" ", "C", "A", "N", "C", "E", "L", "A", "D", "A", " ">>, <<"1", "0", "0">>, <<"1">>, <<"0", "2", "/", "0", "3", "/", "2", "0", "2", "4">>>>,
      <<Key2Printed, <<"N", "o", "t", "a", " ", "C", "a", "n", "c", "e", "l", "a", "d", "a", " ", "p", "e", "l", "o", " ", "e", "m", "i", "t", "e", "n", "t", "e">>, <<"2", "0", "0">>, <<"1">>, <<>>>>,
      <<Key3, <<"A", "u", "t", "o", "r", "i", "z", "a", "d", "a">>, <<"3", "0", "0">>, <<"2">>, <<>>>>,
      <<Key30, <<"D", "e", "n", "e", "g", "a", "d", "a">>, <<"3", "0">>, <<>>, <<>>>>,
      <<Key20, <<"A", "u", "t", "o", "r", "i", "z", "a", "d", "a">>, <<"2", "0">>, <<"1">>, <<>>>> }

\* a page of the portal: a banner table, then the table of invoices with a
\* title row above its header row
SefazPage(rows) ==
    << << <<<<"C", "o", "n", "s", "u", "l", "t", "a", " ", "d", "e", " ", "N", "F", "-", "e">>>> >>,
       << <<<<"N", "o", "t", "a", "s">>>>, SefazHeader >> \o rows >>

SefazDocs == {SefazPage(rows) : rows \in RowSeqs(SefazRowSamples, MaxSefazRows)}

\* the record lists the two extractors return for these documents
LedgerLists == {parseAccountingFile(d).records : d \in LedgerDocs}
AuthorityLists == {parseSefazHtml(d).records : d \in SefazDocs}

-----------------------------------------------------------------------------
(* The files a user can select                                             *)

MaxPending == 2

AccountingFileNames == {"contabil.xlsx", "contabil2.xlsx", "sem_chave.xlsx"}

AccountingContent(name) ==
    CASE name = "contabil.xlsx" ->
            <<LedgerHeader,
              <<Key1Printed, <<"1", "0", "0">>, <<"R", "$", " ", "1", ".", "2", "3", "4", ",", "5", "6">>, <<"0", "1", "/", "0", "3", "/", "2", "0", "2", "4">>>>,
              <<Key2Printed, Undefined, <<"a", "b", "c">>>> >>
      [] name = "contabil2.xlsx" ->
            <<LedgerHeader,
              <<<<"s", "/", "n">>, <<"3", "0", "0">>, <<"5", ",", "5">>>>,
              <<Key1, <<"1", "0", "1">>, <<"1", "0", ",", "0", "0">>>> >>
      [] name = "sem_chave.xlsx" ->
            << <<<<"N", "u", "m", "e", "r", "o">>, <<"V", "a", "l", "o", "r">>>>,
               <<<<"1", "0", "0">>, <<"1", ",", "0", "0">>>> >>

SefazFileNames == {"sefaz.html", "sefaz2.html", "outra_pagina.html"}

SefazContent(name) ==
    CASE name = "sefaz.html" ->
            SefazPage(<< <<Key1, <<"A", "u", "t", "o", "r", "i", "z", "a", "d", "a">>, <<"1", "0", "0">>, <<"1">>, <<>>>>,
                         <<Key3, <<"A", "u", "t", "o", "r", "i", "z", "a", "d", "a">>, <<"3", "0", "0">>, <<"2">>, <<>>>> >>)
      [] name = "sefaz2.html" ->
            SefazPage(<< <<Key2Printed, <<"N", "o", "t", "a", " ", "C", "a", "n", "c", "e", "l", "a", "d", "a", " ", "p", "e", "l", "o", " ", "e", "m", "i", "t", "e", "n", "t", "e">>, <<"2", "0", "0">>, <<"1">>, <<>>>>,
                         <<Key1Printed, <<" ", "C", "A", "N", "C", "E", "L", "A", "D", "A", " ">>, <<"1", "0", "0">>, <<"1">>, <<"0", "2", "/", "0", "3", "/", "2", "0", "2", "4">>>> >>)
      [] name = "outra_pagina.html" ->
            << << <<<<"C", "o", "n", "s", "u", "l", "t", "a", " ", "d", "e", " ", "N", "F", "-", "e">>>> >> >>

\* the settled promises, computed once per file
AccountingParse == [name \in AccountingFileNames |-> parseAccountingFile(AccountingContent(name))]
SefazParse == [name \in SefazFileNames |-> parseSefazHtml(SefazContent(name))]

\* the selections of the SEFAZ input (it accepts several files): each file
\* alone, and the two exports together
SefazSelections ==
    {<<name>> : name \in SefazFileNames} \cup {<<"sefaz.html", "sefaz2.html">>}

-----------------------------------------------------------------------------
(* services/parser: parseSefazFiles (merge of several exports, with the    *)
(* removal of duplicate keys under an unspecified policy)                  *)

DedupPolicies == {"first-wins", "last-wins", "union"}

RECURSIVE mergeRecords(_, _)
mergeRecords(sel, i) ==
    IF i > Len(sel) THEN <<>> ELSE SefazParse[sel[i]].records \o mergeRecords(sel, i + 1)

RECURSIVE dedupRecords(_, _, _)
dedupRecords(recs, i, policy) ==
    IF i > Len(recs) THEN <<>>
    ELSE LET keep == CASE policy = "first-wins" -> \A j \in 1..(i - 1) : recs[j].chave # recs[i].chave
                       [] policy = "last-wins" -> \A j \in (i + 1)..Len(recs) : recs[j].chave # recs[i].chave
                       [] OTHER -> TRUE
         IN (IF keep THEN <<recs[i]>> ELSE <<>>) \o dedupRecords(recs, i + 1, policy)

parseSefazFiles(sel, policy) ==
    LET failed == {i \in 1..Len(sel) : ~SefazParse[sel[i]].ok} IN
    IF failed # {}
    THEN [ok |-> FALSE, records |-> <<>>,
          message |-> SefazParse[sel[CHOOSE i \in failed : \A j \in failed : i <= j]].message]
    ELSE [ok |-> TRUE, records |-> dedupRecords(mergeRecords(sel, 1), 1, policy), message |-> ""]

\* the settled promises of parseSefazFiles, computed once per selection
SefazFilesParse ==
    [sel \in SefazSelections, policy \in DedupPolicies |-> parseSefazFiles(sel, policy)]

-----------------------------------------------------------------------------
(* App: state and handlers                                                 *)

Builds == {"App.tsx", "part_002"}

NoRun == [absent |-> TRUE]

\* the selections are not recorded
NotRecorded == [absent |-> TRUE]

\* no sort chosen (null)
NoSort == [absent |-> TRUE]

\* the initial state of the filters and of the sort
InitView ==
    /\ sortConfig = NoSort
    /\ filterText = <<>>
    /\ statusFilter = "all"

\* no function of utils or services/parser is run on its own
NoInput == <<>>
NoOutput == [absent |-> TRUE]

Init ==
    /\ build \in Builds
    /\ accountingData = <<>>
    /\ sefazData = <<>>
    /\ results = <<>>
    /\ isCompared = FALSE
    /\ currentPage = 1
    /\ accountingFileName = ""
    /\ sefazFileName = ""
    /\ error = NoError
    /\ pending = {}
    /\ lastRun = NoRun
    /\ selected = NotRecorded
    /\ InitView
    /\ input = NoInput
    /\ output = NoOutput

\* handleAccountingUpload up to its await: the error is cleared and the
\* parse of files[0] is started
handleAccountingUpload(name) ==
    LET task == [kind |-> "accounting", files |-> <<name>>] IN
    /\ Cardinality(pending) < MaxPending
    /\ task \notin pending
    /\ error' = NoError
    /\ pending' = pending \cup {task}
    /\ selected' = IF selected = NotRecorded THEN selected
                   ELSE [selected EXCEPT !.accounting = <<name>>]
    /\ UNCHANGED <<viewVars, input, output, build, accountingData, sefazData, results, isCompared, currentPage,
                   accountingFileName, sefazFileName, lastRun>>

\* mutant: the catch branch also drops the ledger list held so far
resumeAccountingUpload_clearOnError(task) ==
    /\ task \in pending
    /\ task.kind = "accounting"
    /\ pending' = pending \ {task}
    /\ LET r == AccountingParse[task.files[1]] IN
       IF r.ok
       THEN /\ accountingData' = r.records
            /\ accountingFileName' = task.files[1]
            /\ isCompared' = FALSE
            /\ UNCHANGED error
       ELSE /\ error' = <<"Erro no arquivo contabil: ", r.message>>
            /\ accountingData' = <<>>
            /\ accountingFileName' = ""
            /\ UNCHANGED isCompared
    /\ UNCHANGED <<selected, viewVars, input, output, build, sefazData, results, currentPage, sefazFileName, lastRun>>

\* handleAccountingUpload after its await: the promise settled
resumeAccountingUpload(task) ==
    /\ task \in pending
    /\ task.kind = "accounting"
    /\ pending' = pending \ {task}
    /\ LET r == AccountingParse[task.files[1]] IN
       IF r.ok
       THEN /\ accountingData' = r.records
            /\ accountingFileName' = task.files[1]
            /\ isCompared' = FALSE
            /\ UNCHANGED error
       ELSE /\ error' = <<"Erro no arquivo contabil: ", r.message>>
            /\ UNCHANGED <<accountingData, accountingFileName, isCompared>>
    /\ UNCHANGED <<selected, viewVars, input, output, build, sefazData, results, currentPage, sefazFileName, lastRun>>

SelectedText(sel) ==
    IF Len(sel) > 1
    THEN CASE Len(sel) = 2 -> "2 arquivos selecionados"
           [] Len(sel) = 3 -> "3 arquivos selecionados"
    ELSE sel[1]

handleSefazUpload(sel) ==
    LET task == [kind |-> "sefaz", files |-> sel] IN
    /\ Cardinality(pending) < MaxPending
    /\ task \notin pending
    /\ error' = NoError
    /\ pending' = pending \cup {task}
    /\ selected' = IF selected = NotRecorded THEN selected
                   ELSE [selected EXCEPT !.sefaz = sel]
    /\ UNCHANGED <<viewVars, input, output, build, accountingData, sefazData, results, isCompared, currentPage,
                   accountingFileName, sefazFileName, lastRun>>

\* mutant: a new authority list leaves the comparison on display
resumeSefazUpload_keepCompared(task, policy) ==
    /\ task \in pending
    /\ task.kind = "sefaz"
    /\ pending' = pending \ {task}
    /\ LET r == SefazFilesParse[task.files, policy] IN
       IF r.ok
       THEN /\ sefazData' = r.records
            /\ sefazFileName' = SelectedText(task.files)
            /\ UNCHANGED <<error, isCompared>>
       ELSE /\ error' = <<"Erro nos arquivos SEFAZ: ", r.message>>
            /\ UNCHANGED <<sefazData, sefazFileName, isCompared>>
    /\ UNCHANGED <<selected, viewVars, input, output, build, accountingData, results, currentPage, accountingFileName, lastRun>>

\* handleSefazUpload after its await: the promise settled
resumeSefazUpload(task, policy) ==
    /\ task \in pending
    /\ task.kind = "sefaz"
    /\ pending' = pending \ {task}
    /\ LET r == SefazFilesParse[task.files, policy] IN
       IF r.ok
       THEN /\ sefazData' = r.records
            /\ sefazFileName' = SelectedText(task.files)
            /\ isCompared' = FALSE
            /\ UNCHANGED error
       ELSE /\ error' = <<"Erro nos arquivos SEFAZ: ", r.message>>
            /\ UNCHANGED <<sefazData, sefazFileName, isCompared>>
    /\ UNCHANGED <<selected, viewVars, input, output, build, accountingData, results, currentPage, accountingFileName, lastRun>>

\* mutant: the new comparison is appended to the results already held
compareWith_append(comparison) ==
    IF Len(accountingData) = 0 \/ Len(sefazData) = 0
    THEN /\ error' = <<CompareGuardMessage>>
         /\ UNCHANGED <<selected, viewVars, input, output, build, accountingData, sefazData, results, isCompared, currentPage,
                        accountingFileName, sefazFileName, pending, lastRun>>
    ELSE /\ results' = results \o comparison
         /\ isCompared' = TRUE
         /\ currentPage' = 1
         /\ lastRun' = [accounting |-> accountingData, sefaz |-> sefazData,
                        repeated |-> IF lastRun = NoRun THEN FALSE
                                     ELSE /\ lastRun.accounting = accountingData
                                          /\ lastRun.sefaz = sefazData]
         /\ UNCHANGED <<selected, viewVars, input, output, build, accountingData, sefazData, accountingFileName, sefazFileName,
                        error, pending>>

\* mutant: the guard tests the SEFAZ list only
compareWith_guardSefazOnly(comparison) ==
    IF Len(sefazData) = 0
    THEN /\ error' = <<CompareGuardMessage>>
         /\ UNCHANGED <<selected, viewVars, input, output, build, accountingData, sefazData, results, isCompared, currentPage,
                        accountingFileName, sefazFileName, pending, lastRun>>
    ELSE /\ results' = comparison
         /\ isCompared' = TRUE
         /\ currentPage' = 1
         /\ lastRun' = [accounting |-> accountingData, sefaz |-> sefazData,
                        repeated |-> IF lastRun = NoRun THEN FALSE
                                     ELSE /\ lastRun.accounting = accountingData
                                          /\ lastRun.sefaz = sefazData]
         /\ UNCHANGED <<selected, viewVars, input, output, build, accountingData, sefazData, accountingFileName, sefazFileName,
                        error, pending>>

\* the body shared by the two revisions of handleCompare
compareWith(comparison) ==
    IF Len(accountingData) = 0 \/ Len(sefazData) = 0
    THEN /\ error' = <<CompareGuardMessage>>
         /\ UNCHANGED <<selected, viewVars, input, output, build, accountingData, sefazData, results, isCompared, currentPage,
                        accountingFileName, sefazFileName, pending, lastRun>>
    ELSE /\ results' = comparison
         /\ isCompared' = TRUE
         /\ currentPage' = 1
         /\ lastRun' = [accounting |-> accountingData, sefaz |-> sefazData,
                         repeated |-> IF lastRun = NoRun THEN FALSE
                                      ELSE /\ lastRun.accounting = accountingData
                                           /\ lastRun.sefaz = sefazData]
         /\ UNCHANGED <<selected, viewVars, input, output, build, accountingData, sefazData, accountingFileName, sefazFileName,
                        error, pending>>

\* src/App.tsx
handleCompare ==
    /\ build = "App.tsx"
    /\ compareWith(comparisonApp(accountingData, sefazData))

\* the revision that also reports the accounting records left in the map
handleCompare002 ==
    /\ build = "part_002"
    /\ compareWith(comparison002(accountingData, sefazData))

Next ==
    \/ \E name \in AccountingFileNames : handleAccountingUpload(name)
    \/ \E task \in pending : resumeAccountingUpload(task)
    \/ \E sel \in SefazSelections : handleSefazUpload(sel)
    \/ \E task \in pending, policy \in DedupPolicies : resumeSefazUpload(task, policy)
    \/ handleCompare
    \/ handleCompare002

Spec == Init /\ [][Next]_vars

-----------------------------------------------------------------------------
(* The reconciliation as a function of its two lists: any list the ledger  *)
(* extractor returns against any list the authority extractor returns      *)

InitReconcile ==
    /\ build \in Builds
    /\ accountingData \in LedgerLists
    /\ sefazData \in AuthorityLists
    /\ results = <<>>
    /\ isCompared = FALSE
    /\ currentPage = 1
    /\ accountingFileName = "contabil.xlsx"
    /\ sefazFileName = "sefaz.html"
    /\ error = NoError
    /\ pending = {}
    /\ lastRun = NoRun
    /\ selected = NotRecorded
    /\ InitView
    /\ input = NoInput
    /\ output = NoOutput

NextReconcile ==
    \/ handleCompare
    \/ handleCompare002

SpecReconcile == InitReconcile /\ [][NextReconcile]_vars

-----------------------------------------------------------------------------
(* Properties of the reconciliation                                        *)

\* a comparison has completed; results is its output on lastRun
Ran == lastRun # NoRun

CompareStep == handleCompare \/ handleCompare002

CancelLetters ==
    << {"c", "C"}, {"a", "A"}, {"n", "N"}, {"c", "C"}, {"e", "E"},
       {"l", "L"}, {"a", "A"}, {"d", "D"}, {"a", "A"} >>

\* text contains 'cancelada' in any letter case
HasCancelada(text) ==
    \E i \in 1..(Len(text) - 8) : \A j \in 1..9 : text[i + j - 1] \in CancelLetters[j]

\* some ledger record of list A carries key k
LedgerHas(A, k) == \E n \in 1..Len(A) : A[n].chave = k

\* the last ledger record of list A that carries key k
LastLedger(A, k) ==
    A[CHOOSE n \in 1..Len(A) : A[n].chave = k /\ \A m \in (n + 1)..Len(A) : A[m].chave # k]

\* C1: every authority record whose status text contains 'cancelada' (any
\* letter case) gets a result of status Cancelled, with or without a
\* ledger record of the same key; it is never Matched.
Theorem_C1 ==
    Ran => \A i \in 1..Len(lastRun.sefaz) :
              HasCancelada(lastRun.sefaz[i].situacao)
              => /\ i <= Len(results)
                 /\ results[i].chave = lastRun.sefaz[i].chave
                 /\ results[i].status = CANCELLED

Witness_C1 ==
    /\ Ran
    /\ \E i \in 1..Len(lastRun.sefaz) :
          /\ HasCancelada(lastRun.sefaz[i].situacao)
          /\ LedgerHas(lastRun.accounting, lastRun.sefaz[i].chave)
          /\ results[i].status = CANCELLED
          /\ results[i].accountingRecord # NoRecord

\* res starts with one result per record of S, in the order of S, and has
\* no other result that refers to an authority record
AuthorityDriven(res, S) ==
    /\ Len(res) >= Len(S)
    /\ \A i \in 1..Len(S) :
          /\ res[i].sefazRecord = S[i]
          /\ res[i].chave = S[i].chave
          /\ res[i].numero = S[i].numero
          /\ res[i].serie = S[i].serie
          /\ res[i].situacaoSefaz = S[i].situacao
    /\ \A j \in (Len(S) + 1)..Len(res) : res[j].sefazRecord = NoRecord

\* C2 as stated: for any ledger list and any non-empty authority list a
\* comparison emits exactly one result per authority record, in authority
\* order, the i-th carrying key, number, series and status text of the i-th
\* authority record.
Original_C2 ==
    [][CompareStep /\ sefazData # <<>> => AuthorityDriven(results', sefazData)]_vars

\* C2 amended: the same, for any non-empty ledger list and any non-empty
\* authority list.
Theorem_C2 ==
    [][CompareStep /\ accountingData # <<>> /\ sefazData # <<>>
       => AuthorityDriven(results', sefazData)]_vars

Witness_C2 ==
    /\ Ran
    /\ \E i, j \in 1..Len(lastRun.sefaz) :
          i < j /\ lastRun.sefaz[i].chave = lastRun.sefaz[j].chave
                /\ lastRun.sefaz[i].situacao # lastRun.sefaz[j].situacao
    /\ AuthorityDriven(results, lastRun.sefaz)

\* C3: for every authority record whose status text does not contain
\* 'cancelada', also one that repeats an earlier key, the result is Matched
\* exactly when some ledger record has the same key, and otherwise it is
\* NotBookedInLedger with value 0 and no ledger back-reference.
Claim_C3 ==
    Ran => \A i \in 1..Len(lastRun.sefaz) :
              ~HasCancelada(lastRun.sefaz[i].situacao)
              => /\ results[i].status = MATCHED
                    <=> LedgerHas(lastRun.accounting, lastRun.sefaz[i].chave)
                 /\ ~LedgerHas(lastRun.accounting, lastRun.sefaz[i].chave)
                    => /\ results[i].status = MISSING_IN_ACCOUNTING
                       /\ results[i].valor = Zero
                       /\ results[i].accountingRecord = NoRecord

\* the ledger keys of list A that no authority record of list S carries
UnmatchedLedgerKeys(A, S) ==
    {A[n].chave : n \in {m \in 1..Len(A) : A[m].chave # <<>>}}
        \ {S[i].chave : i \in 1..Len(S)}

\* result r reports ledger key k as absent from the authority data
ReportsAbsent(r, A, k) ==
    /\ r.chave = k
    /\ r.status = MISSING_IN_SEFAZ
    /\ r.sefazRecord = NoRecord
    /\ r.situacaoSefaz = NotInFileText
    /\ r.accountingRecord # NoRecord
    /\ \E n \in 1..Len(A) : A[n] = r.accountingRecord /\ A[n].chave = k
    /\ r.numero = r.accountingRecord.numero
    /\ r.data = r.accountingRecord.dataEmissao
    /\ r.valor = r.accountingRecord.valor

\* after the authority-driven results there is exactly one result for each
\* unmatched ledger key, and it reports the key as absent
AbsentReported(res, A, S) ==
    \A k \in UnmatchedLedgerKeys(A, S) :
        /\ Cardinality({j \in 1..Len(res) : res[j].chave = k}) = 1
        /\ \E j \in (Len(S) + 1)..Len(res) : ReportsAbsent(res[j], A, k)

\* C4 as stated: every comparison emits, after the authority-driven
\* results, one NotFoundAtAuthority result for every ledger key that no
\* authority record carries, with the ledger record's number, date and
\* value, the fixed status text and no authority back-reference.
Original_C4 ==
    Ran => AbsentReported(results, lastRun.accounting, lastRun.sefaz)

\* C4 amended: the revision of handleCompare that walks the remaining map
\* entries does so; the handleCompare of src/App.tsx emits no
\* NotFoundAtAuthority result at all.
Theorem_C4 ==
    Ran => IF build = "part_002"
           THEN AbsentReported(results, lastRun.accounting, lastRun.sefaz)
           ELSE \A j \in 1..Len(results) : results[j].status # MISSING_IN_SEFAZ

Witness_C4 ==
    /\ Ran
    /\ build = "part_002"
    /\ Cardinality(UnmatchedLedgerKeys(lastRun.accounting, lastRun.sefaz)) = 2
    /\ \E j \in 1..Len(results) : results[j].status = MISSING_IN_SEFAZ

\* C5: a ledger key that the lookup of some authority record found (also of
\* a record classified Cancelled) yields no NotFoundAtAuthority result: no
\* key is both in an authority-driven result with a ledger back-reference
\* and in a NotFoundAtAuthority result of the same run.
Claim_C5 ==
    Ran => \A i \in 1..Len(lastRun.sefaz), j \in 1..Len(results) :
              results[i].accountingRecord # NoRecord
              => ~(results[j].status = MISSING_IN_SEFAZ /\ results[j].chave = results[i].chave)

\* C6: when several ledger records share a key, the value and the ledger
\* back-reference of a result matched on that key are those of the last
\* such ledger record in input order.
Theorem_C6 ==
    Ran => \A j \in 1..Len(results) :
              results[j].accountingRecord # NoRecord
              => /\ results[j].accountingRecord = LastLedger(lastRun.accounting, results[j].chave)
                 /\ results[j].valor = LastLedger(lastRun.accounting, results[j].chave).valor

Witness_C6 ==
    /\ Ran
    /\ \E j \in 1..Len(results), m, n \in 1..Len(lastRun.accounting) :
          /\ m < n
          /\ lastRun.accounting[m].chave = lastRun.accounting[n].chave
          /\ lastRun.accounting[m].valor # lastRun.accounting[n].valor
          /\ results[j].status = MATCHED
          /\ results[j].chave = lastRun.accounting[n].chave
          /\ results[j].valor = lastRun.accounting[n].valor

\* C7: every result has at least one of its two back-references, and its
\* key is the key of its authority back-reference or of its ledger
\* back-reference.
Theorem_C7 ==
    Ran => \A j \in 1..Len(results) :
              \/ /\ results[j].sefazRecord # NoRecord
                 /\ results[j].chave = results[j].sefazRecord.chave
              \/ /\ results[j].accountingRecord # NoRecord
                 /\ results[j].chave = results[j].accountingRecord.chave

Witness_C7 ==
    /\ Ran
    /\ \E i, j \in 1..Len(results) :
          /\ results[i].sefazRecord # NoRecord /\ results[i].accountingRecord = NoRecord
          /\ results[j].sefazRecord = NoRecord /\ results[j].accountingRecord # NoRecord

\* C8: two comparisons of the same ledger list and the same authority list
\* give identical result lists, whatever the state before each of them.
Theorem_C8 ==
    [][/\ Ran
       /\ lastRun.accounting = accountingData
       /\ lastRun.sefaz = sefazData
       /\ CompareStep
       => results' = results]_vars

Witness_C8 ==
    /\ Ran
    /\ lastRun.repeated
    /\ error # NoError
    /\ Len(results) > 1

\* for an empty ledger list every authority record that is not cancelled
\* is NotBookedInLedger
EmptyLedgerRule(res, A, S) ==
    A = <<>> => \A i \in 1..Len(S) :
                   ~HasCancelada(S[i].situacao) => res[i].status = MISSING_IN_ACCOUNTING

\* C9 as stated: a comparison of any two lists, an empty one included,
\* produces a result list and never ends in an error without results.
Original_C9 ==
    [][CompareStep
       => /\ isCompared'
          /\ error' # <<CompareGuardMessage>>
          /\ Len(results') >= Len(sefazData)
          /\ EmptyLedgerRule(results', accountingData, sefazData)]_vars

\* C9 amended: a comparison of two non-empty lists produces a result list
\* and raises no error; when the ledger list or the authority list is
\* empty it shows the error message and leaves results and isCompared as
\* they were.
Theorem_C9 ==
    [][CompareStep
       => IF accountingData # <<>> /\ sefazData # <<>>
          THEN /\ isCompared'
               /\ error' = error
               /\ Len(results') >= Len(sefazData)
          ELSE /\ error' = <<CompareGuardMessage>>
               /\ results' = results
               /\ isCompared' = isCompared]_vars

Witness_C9 ==
    /\ error = <<CompareGuardMessage>>
    /\ accountingData = <<>>
    /\ sefazData # <<>>
    /\ ~isCompared
    /\ results = <<>>

\* C10: no extractor emits a record with an empty canonical key.
Claim_C10 ==
    /\ \A n \in 1..Len(accountingData) : accountingData[n].chave # <<>>
    /\ \A i \in 1..Len(sefazData) : sefazData[i].chave # <<>>

-----------------------------------------------------------------------------
(* The functions of utils run on their own: one call of normalizeKey or     *)
(* of extractDateFromKey on a text, or normalizeHeader on a text and then   *)
(* on its own result                                                       *)

appVars == <<build, accountingData, sefazData, results, isCompared, currentPage,
             accountingFileName, sefazFileName, error, pending, lastRun, selected, viewVars>>

InitApp ==
    /\ build = "App.tsx"
    /\ accountingData = <<>>
    /\ sefazData = <<>>
    /\ results = <<>>
    /\ isCompared = FALSE
    /\ currentPage = 1
    /\ accountingFileName = ""
    /\ sefazFileName = ""
    /\ error = NoError
    /\ pending = {}
    /\ lastRun = NoRun
    /\ selected = NotRecorded
    /\ InitView

MaxTextLen == 4

\* upper case and accent, lower case, digits, white space, punctuation
TextAlphabet == {"C-cedilla", "b", "7", "1", " ", "-", "_"}

Texts == UNION {[1..k -> TextAlphabet] : k \in 0..MaxTextLen}

\* access keys as they are typed or printed: 43, 44 and 45 digits, with
\* and without separators and letters
KeyTexts ==
    { Key1, Key2, Key3, Key1Printed, Key2Printed, Key30, Key20,
      SubSeq(Key1, 1, 43),
      Key1 \o <<"7">>,
      <<"b">> \o SubSeq(Key2, 1, 43) \o <<"-", "7", "1">>,
      <<"N", "F", "e">> \o Key3 \o <<" ", "b">> }

UtilInputs == Texts \cup KeyTexts \cup {Undefined}

InitUtils ==
    /\ InitApp
    /\ input \in UtilInputs
    /\ output = NoOutput

callNormalizeKey ==
    /\ output = NoOutput
    /\ output' = [fn |-> "normalizeKey", arg |-> input, value |-> normalizeKey(input), pass |-> 1]
    /\ UNCHANGED <<input, appVars>>

callExtractDateFromKey ==
    /\ output = NoOutput
    /\ output' = [fn |-> "extractDateFromKey", arg |-> input,
                  value |-> extractDateFromKey(input), pass |-> 1]
    /\ UNCHANGED <<input, appVars>>

callNormalizeHeader ==
    /\ output = NoOutput
    /\ output' = [fn |-> "normalizeHeader", arg |-> input, value |-> normalizeHeader(input), pass |-> 1]
    /\ UNCHANGED <<input, appVars>>

\* normalizeHeader applied to the result of normalizeHeader
callNormalizeHeaderAgain ==
    /\ output # NoOutput
    /\ output.fn = "normalizeHeader"
    /\ output.pass = 1
    /\ output' = [fn |-> "normalizeHeader", arg |-> output.value,
                  value |-> normalizeHeader(output.value), pass |-> 2]
    /\ UNCHANGED <<input, appVars>>

NextUtils ==
    \/ callNormalizeKey
    \/ callExtractDateFromKey
    \/ callNormalizeHeader
    \/ callNormalizeHeaderAgain

SpecUtils == InitUtils /\ [][NextUtils]_vars

-----------------------------------------------------------------------------
(* Properties of normalizeKey, extractDateFromKey and normalizeHeader      *)

Returned(fn) == output # NoOutput /\ output.fn = fn

\* the characters of an argument: none for null or undefined
CharsOf(s) == IF s = Undefined THEN <<>> ELSE s

\* the digits of s, in the order in which they stand in s
RECURSIVE DigitsOf(_)
DigitsOf(s) ==
    IF s = <<>> THEN <<>>
    ELSE IF Head(s) \in Digits THEN <<Head(s)>> \o DigitsOf(Tail(s))
    ELSE DigitsOf(Tail(s))

DigitCount(s) == Cardinality({i \in 1..Len(s) : s[i] \in Digits})

\* C13: for every text s, normalizeKey(s) consists of the characters 0-9
\* only, is the digits of s in their original order, is no longer than the
\* number of digits of s, and is empty for an empty or null s.
Theorem_C13 ==
    Returned("normalizeKey")
    => LET s == CharsOf(output.arg)
           v == output.value
       IN /\ \A i \in 1..Len(v) : v[i] \in Digits
          /\ v = DigitsOf(s)
          /\ Len(v) <= DigitCount(s)
          /\ s = <<>> => v = <<>>

Witness_C13 ==
    /\ Returned("normalizeKey")
    /\ output.arg = <<"7", "-", "b", "1">>
    /\ output.value = <<"7", "1">>

\* C14: for a text with exactly 44 digits extractDateFromKey returns the
\* digits at offsets 4-5, then '/20', then the digits at offsets 2-3; for a
\* text with any other number of digits (fewer, more, none) it returns the
\* empty text.
Theorem_C14 ==
    Returned("extractDateFromKey")
    => LET d == DigitsOf(CharsOf(output.arg)) IN
       IF Len(d) = 44
       THEN output.value = <<d[5], d[6], "/", "2", "0", d[3], d[4]>>
       ELSE output.value = <<>>

Witness_C14 ==
    /\ Returned("extractDateFromKey")
    /\ output.arg = Key2Printed
    /\ output.value = <<"1", "1", "/", "2", "0", "2", "3">>

\* C15: normalizeHeader is idempotent (applied to its own result it returns
\* that result), and its result has only the characters a-z, 0-9 and '_',
\* with no two underscores next to each other.
Theorem_C15 ==
    Returned("normalizeHeader")
    => LET v == output.value IN
       /\ \A i \in 1..Len(v) : v[i] \in LowerLetters \cup Digits \cup {"_"}
       /\ \A i \in 1..(Len(v) - 1) : ~(v[i] = "_" /\ v[i + 1] = "_")
       /\ output.pass = 2 => v = output.arg

Witness_C15 ==
    /\ Returned("normalizeHeader")
    /\ output.pass = 2
    /\ input = <<" ", "C-cedilla", "-", "_">>
    /\ output.value = <<"c", "_">>

-----------------------------------------------------------------------------
(* parseAccountingFile run on its own, on grids of several header rows      *)

\* header rows: the usual one; no key column; a blank cell (a hole) after
\* the key column, before it, and after the four columns; key and number
\* only; two columns for every role; columns that satisfy two roles; no
\* cell at all
GridHeaders ==
    { LedgerHeader,
      <<<<"N", "u", "m", "e", "r", "o">>, <<"V", "a", "l", "o", "r">>>>,
      <<<<"C", "h", "a", "v", "e">>, Undefined, <<"V", "a", "l", "o", "r">>>>,
      <<Undefined, <<"C", "h", "a", "v", "e", " ", "N", "F", "e">>, <<"V", "a", "l", "o", "r">>>>,
      <<<<"C", "h", "a", "v", "e">>, <<"N", "u", "m", "e", "r", "o">>, <<"V", "a", "l", "o", "r">>, <<"E", "m", "i", "s", "s", "a", "o">>, Undefined, <<"O", "b", "s">>>>,
      <<<<"C", "h", "a", "v", "e", " ", "N", "F", "e">>, <<"N", "o", " ", "N", "o", "t", "a">>>>,
      <<<<"C", "h", "a", "v", "e">>, <<"N", "o", "t", "a">>, <<"D", "a", "t", "a">>, <<"C", "h", "a", "v", "e", " ", "N", "F", "e">>, <<"V", "a", "l", "o", "r">>, <<"C", "o", "n", "t", "a-acute", "b", "i", "l">>, <<"N", "u", "m", "e", "r", "o">>, <<"E", "m", "i", "s", "s", "a-tilde", "o">>>>,
      <<<<"C", "h", "a", "v", "e", " ", "d", "a", " ", "N", "o", "t", "a">>, <<"N", "u", "m", "e", "r", "o">>, <<"V", "a", "l", "o", "r", " ", "n", "a", " ", "D", "a", "t", "a">>, <<"E", "m", "i", "s", "s", "a", "o">>>>,
      <<>> }

GridRowSamples ==
    LedgerRowSamples
    \cup { <<Undefined, <<"4", "0", "0">>, <<"7", ",", "0", "0">>>>,
           <<Key3, <<"N", "-", "9">>, <<"0", "5", "/", "2", "0", "2", "4">>, Key2Printed, <<"1", ",", "5", "0">>, <<"2", ",", "5", "0">>, <<"7", "7">>, <<"0", "6", "/", "2", "0", "2", "4">>>> }

\* the grids sheet_to_json returns: no row at all, or a header row and data rows
LedgerGrids ==
    {<<>>} \cup {<<h>> \o rows : h \in GridHeaders, rows \in RowSeqs(GridRowSamples, MaxLedgerRows)}

InitParseAccounting ==
    /\ InitApp
    /\ input \in [format : {"xlsx"}, content : LedgerGrids]
    /\ output = NoOutput

\* one call; columns are the column indexes the call worked with (its locals)
callParseAccountingFile ==
    /\ output = NoOutput
    /\ input.format = "xlsx"
    /\ LET jsonData == input.content IN
       output' = [fn |-> "parseAccountingFile", arg |-> jsonData,
                  value |-> parseAccountingFile(jsonData), pass |-> 1,
                  columns |-> IF Len(jsonData) = 0 THEN NoOutput ELSE columnIndexes(jsonData)]
    /\ UNCHANGED <<input, appVars>>

NextParseAccounting == callParseAccountingFile

SpecParseAccounting == InitParseAccounting /\ [][NextParseAccounting]_vars

-----------------------------------------------------------------------------
(* Properties of parseAccountingFile                                       *)

Chave == <<"c", "h", "a", "v", "e">>

\* some cell of row zero of the grid, normalized, contains 'chave'
HasKeyHeader(grid) ==
    /\ Len(grid) > 0
    /\ \E i \in 1..Len(grid[1]) :
          grid[1][i] # Undefined /\ includes(normalizeHeader(grid[1][i]), Chave)

\* C11: parseAccountingFile fails exactly when no header of row zero,
\* normalized, contains 'chave'; when there is such a header it returns a
\* record list, whatever the data rows hold.
Claim_C11 ==
    Returned("parseAccountingFile") => (output.value.ok <=> HasKeyHeader(output.arg))

\* the header columns of the grid that satisfy the predicate of a role
ColumnsOf(grid, role) ==
    {i \in 1..Len(grid[1]) :
        grid[1][i] # Undefined /\ headerMatches(role, normalizeHeader(grid[1][i]))}

\* the lowest of them, NotFound when there is none
FirstColumn(grid, role) ==
    IF ColumnsOf(grid, role) = {} THEN NotFound
    ELSE CHOOSE i \in ColumnsOf(grid, role) : \A j \in ColumnsOf(grid, role) : i <= j

\* the data rows that are not empty and whose key cell is not empty
RECURSIVE QualifyingRows(_, _, _)
QualifyingRows(grid, i, keyColumn) ==
    IF i > Len(grid) THEN <<>>
    ELSE (IF grid[i] # <<>> /\ Cell(grid[i], keyColumn) \notin {Undefined, <<>>}
          THEN <<grid[i]>> ELSE <<>>)
         \o QualifyingRows(grid, i + 1, keyColumn)

Parsed == Returned("parseAccountingFile") /\ output.value.ok

HasNoDigit(cell) == cell = Undefined \/ \A i \in 1..Len(cell) : cell[i] \notin Digits

\* C16: a row whose value cell is not a number (text without a digit, for
\* example), or a grid without a value column, still yields a record, and
\* the value of every record is a number (never NaN), 0 in these cases.
Claim_C16 ==
    Parsed
    => LET grid == output.arg
           rows == QualifyingRows(grid, 2, FirstColumn(grid, "chave"))
           recs == output.value.records
       IN /\ Len(recs) = Len(rows)
          /\ \A n \in 1..Len(recs) :
                /\ ~recs[n].valor.nan
                /\ \/ FirstColumn(grid, "valor") = NotFound
                   \/ HasNoDigit(Cell(rows[n], FirstColumn(grid, "valor")))
                   => recs[n].valor = Zero

\* C17: parseAccountingFile emits exactly one record per qualifying data
\* row (not row zero, not empty, key cell not empty), in the order of the
\* rows, and keeps the rows that give the same canonical key.
Theorem_C17 ==
    Parsed
    => LET grid == output.arg
           rows == QualifyingRows(grid, 2, FirstColumn(grid, "chave"))
           recs == output.value.records
       IN /\ Len(recs) = Len(rows)
          /\ \A n \in 1..Len(recs) :
                /\ recs[n].sourceRow = rows[n]
                /\ recs[n].chave = DigitsOf(Cell(rows[n], FirstColumn(grid, "chave")))

Witness_C17 ==
    /\ Parsed
    /\ Len(output.arg) = 3
    /\ output.arg[3] # output.arg[2]
    /\ Len(output.value.records) = 2
    /\ output.value.records[1].chave = Key1
    /\ output.value.records[2].chave = Key1
    /\ output.value.records[1].sourceRow = output.arg[2]
    /\ output.value.records[2].sourceRow = output.arg[3]

ColumnRoles == <<"chave", "numero", "valor", "data">>

\* C18: each of the four roles is bound to the lowest header column that
\* satisfies the predicate of the role, and is unresolved when no column
\* satisfies it.
Theorem_C18 ==
    Parsed
    => \A k \in 1..4 :
          output.columns[ColumnRoles[k]] = FirstColumn(output.arg, ColumnRoles[k])

Witness_C18 ==
    /\ Parsed
    /\ Len(output.arg[1]) = 8
    /\ output.columns = [chave |-> 1, numero |-> 2, valor |-> 5, data |-> 3]
    /\ \A k \in 1..4 : Cardinality(ColumnsOf(output.arg, ColumnRoles[k])) = 2
    /\ Len(output.value.records) = 1
    /\ output.value.records[1].numero = <<"N", "-", "9">>

\* C19: a header column that satisfies the predicates of several roles is
\* bound to one role only, the first in the order key, number, value,
\* date: no column is the column of two resolved roles.
Claim_C19 ==
    Parsed
    => \A j, k \in 1..4 :
          /\ j < k
          /\ output.columns[ColumnRoles[j]] # NotFound
          => output.columns[ColumnRoles[k]] # output.columns[ColumnRoles[j]]

-----------------------------------------------------------------------------
(* parseSefazHtml run on its own, on documents of several tables           *)

MaxTables == 2

TitleRow == <<<<"N", "o", "t", "a", "s">>>>
ReorderedHeader == <<<<"S", "i", "t", "u", "a", "c-cedilla", "a-tilde", "o">>, <<"N", "u", "m", "e", "r", "o">>, <<"C", "h", "a", "v", "e">>>>
AuthorizedRow == <<Key1, <<"A", "u", "t", "o", "r", "i", "z", "a", "d", "a">>, <<"1", "0", "0">>, <<"1">>, <<>>>>
ReorderedRow == <<<<"C", "a", "n", "c", "e", "l", "a", "d", "a">>, <<"2", "0", "0">>, Key2Printed>>

\* a banner; the table of invoices, its header in row 1; a table whose
\* header is in row 5, out of reach of the search; one whose header is in
\* row 4; one with two rows that qualify; one with a key column and no
\* status column; one with the two words in different rows; one without
\* rows; one with header cells that fit several roles and rows with short
\* keys, too few cells and the word 'chave' in the key cell; one whose key
\* header has an accent and digits; one with both words in one header cell
TableSamples ==
    { << <<<<"C", "o", "n", "s", "u", "l", "t", "a", " ", "d", "e", " ", "N", "F", "-", "e">>>> >>,
      <<TitleRow, SefazHeader, AuthorizedRow, <<Key3, <<"A", "u", "t", "o", "r", "i", "z", "a", "d", "a">>, <<"3", "0", "0">>, <<"2">>, <<>>>>>>,
      <<TitleRow, TitleRow, TitleRow, TitleRow, TitleRow, SefazHeader, AuthorizedRow>>,
      <<TitleRow, TitleRow, TitleRow, TitleRow, ReorderedHeader, ReorderedRow>>,
      <<ReorderedHeader, SefazHeader, ReorderedRow, AuthorizedRow>>,
      <<<<<<"C", "h", "a", "v", "e">>, <<"N", "u", "m", "e", "r", "o">>, <<"V", "a", "l", "o", "r">>>>, <<Key1, <<"1", "0", "0">>, <<"1", "0", ",", "0", "0">>>>>>,
      <<<<<<"C", "h", "a", "v", "e">>, <<"N", "u", "m", "e", "r", "o">>, <<"S", "e", "r", "i", "e">>>>, <<<<"S", "i", "t", "u", "a", "c-cedilla", "a-tilde", "o">>, <<"D", "a", "t", "a">>, <<"E", "m", "i", "t", "e", "n", "t", "e">>>>, <<Key3, <<"3", "0", "0">>, <<"2">>>>>>,
      <<>>,
      <<<<<<"C", "h", "a", "v", "e", " ", "d", "e", " ", "A", "c", "e", "s", "s", "o">>, <<"D", "a", "t", "a", " ", "S", "i", "t", "u", "a", "c-cedilla", "a-tilde", "o">>, <<"N", "u", "m", "e", "r", "o", " ", "S", "e", "r", "i", "e">>, <<"S", "e", "r", "i", "e">>, <<"E", "m", "i", "t", "e", "n", "t", "e">>, <<"C", "N", "P", "J", " ", "E", "m", "i", "t", "e", "n", "t", "e">>, <<"D", "a", "t", "a", " ", "E", "m", "i", "s", "s", "a-tilde", "o">>, <<"N", "o", "t", "a">>>>,
        <<Key30, <<"D", "e", "n", "e", "g", "a", "d", "a">>, <<"3", "0">>, <<"1">>, <<"A", "C", "M", "E">>, <<"1", "1", "2", "2", "2", "3", "3", "3", "0", "0", "0", "1", "4", "4">>, <<" ", "0", "5", "/", "0", "1", "/", "2", "0", "2", "5", " ">>, <<"3", "1">>>>,
        <<Key20, <<"A", "u", "t", "o", "r", "i", "z", "a", "d", "a">>, <<"2", "0">>, <<"1">>, <<"A", "C", "M", "E">>, <<"1", "1", "2", "2", "2", "3", "3", "3", "0", "0", "0", "1", "4", "4">>, <<>>, <<"2", "1">>>>,
        <<Key21, <<"A", "u", "t", "o", "r", "i", "z", "a", "d", "a">>, <<"2", "1">>, <<"1">>, <<"A", "C", "M", "E">>, <<"1", "1", "2", "2", "2", "3", "3", "3", "0", "0", "0", "1", "4", "4">>, <<" ", " ">>, <<"2", "2">>>>,
        <<Key1, <<"A", "u", "t", "o", "r", "i", "z", "a", "d", "a">>>>,
        <<<<"C", "h", "a", "v", "e", " ">> \o Key2, <<"A", "u", "t", "o", "r", "i", "z", "a", "d", "a">>, <<"4", "0">>, <<"1">>, <<"A", "C", "M", "E">>, <<"1", "1", "2", "2", "2", "3", "3", "3", "0", "0", "0", "1", "4", "4">>, <<>>, <<"4", "1">>>>,
        <<Key1Printed, <<" ", "C", "A", "N", "C", "E", "L", "A", "D", "A", " ">>, <<"1", "0", "0">>, <<"1">>, <<"A", "C", "M", "E">>, <<"1", "1", "2", "2", "2", "3", "3", "3", "0", "0", "0", "1", "4", "4">>, <<>>, <<"1", "0", "1">>>>>>,
      <<<<<<"C", "h", "a-acute", "v", "e", " ">> \o Key21, <<"S", "i", "t", "u", "a", "c-cedilla", "a-tilde", "o">>, <<"N", "u", "m", "e", "r", "o">>>>,
        <<Key1, <<"A", "u", "t", "o", "r", "i", "z", "a", "d", "a">>, <<"1", "0", "0">>>>>>,
      <<<<<<"C", "h", "a", "v", "e", " ", "/", " ", "S", "i", "t", "u", "a", "c-cedilla", "a-tilde", "o">>, <<"N", "u", "m", "e", "r", "o">>, <<"S", "e", "r", "i", "e">>>>,
        <<Key1, <<"1", "0", "0">>, <<"1">>>>>> }

\* the documents: the tables of querySelectorAll("table"), in document order
SefazDocuments == UNION {[1..k -> TableSamples] : k \in 0..MaxTables}

InitParseSefaz ==
    /\ InitApp
    /\ input \in [format : {"html"}, content : SefazDocuments]
    /\ output = NoOutput

\* one call; target is the table and the header row the call settled on,
\* headerMap the role map it built (its locals)
callParseSefazHtml ==
    /\ output = NoOutput
    /\ input.format = "html"
    /\ LET tables == input.content IN
       output' = [fn |-> "parseSefazHtml", arg |-> tables,
                  value |-> parseSefazHtml(tables), pass |-> 1,
                  target |-> IF targetTableOf(tables) = NotFound THEN NoOutput
                             ELSE [table |-> targetTableOf(tables),
                                   row |-> headerRowOf(tables[targetTableOf(tables)])],
                  headerMap |-> IF targetTableOf(tables) = NotFound THEN NoOutput
                                ELSE LET targetTable == tables[targetTableOf(tables)]
                                     IN buildHeaderMap(targetTable[headerRowOf(targetTable)])]
    /\ UNCHANGED <<input, appVars>>

NextParseSefaz == callParseSefazHtml

SpecParseSefaz == InitParseSefaz /\ [][NextParseSefaz]_vars

-----------------------------------------------------------------------------
(* Properties of parseSefazHtml                                            *)

Situacao == <<"s", "i", "t", "u", "a", "c", "a", "o">>

\* some cell of the row, normalized, contains the word
RowHasWord(row, word) ==
    \E i \in 1..Len(row) : includes(normalizeHeader(row[i]), word)

\* the rows of the table, among its first five, that have a cell with
\* 'chave' and a cell with 'situacao'
QualifyingHeaderRows(table) ==
    {r \in 1..Len(table) : r <= 5 /\ RowHasWord(table[r], Chave) /\ RowHasWord(table[r], Situacao)}

QualifyingTables(doc) == {t \in 1..Len(doc) : QualifyingHeaderRows(doc[t]) # {}}

\* C12: parseSefazHtml fails exactly when no table of the document has,
\* among its first 5 rows, a row with a normalized cell containing 'chave'
\* and a normalized cell containing 'situacao'; a document without tables
\* fails, a document with such a table returns a record list.
Theorem_C12 ==
    Returned("parseSefazHtml") => (output.value.ok <=> QualifyingTables(output.arg) # {})

Witness_C12 ==
    /\ Returned("parseSefazHtml")
    /\ ~output.value.ok
    /\ Len(output.arg) = 2
    /\ Len(output.arg[1]) = 7
    /\ Len(output.arg[2]) = 3
    /\ RowHasWord(output.arg[1][6], Chave) /\ RowHasWord(output.arg[1][6], Situacao)
    /\ RowHasWord(output.arg[2][1], Chave) /\ RowHasWord(output.arg[2][2], Situacao)

Least(S) == CHOOSE n \in S : \A m \in S : n <= m

\* C20: the target is the first table, in document order, with a
\* qualifying header row at row indexes 0-4, and the header is the lowest
\* such row of that table; a table whose only qualifying row is at index 5
\* or later is never the target, and no table after the target is used.
Theorem_C20 ==
    Returned("parseSefazHtml") /\ output.value.ok
    => LET doc == output.arg
           t   == Least(QualifyingTables(doc))
           r   == Least(QualifyingHeaderRows(doc[t]))
       IN /\ output.target = [table |-> t, row |-> r]
          /\ output.value.records = sefazRows(doc[t], 1, buildHeaderMap(doc[t][r]))
          /\ \A n \in 1..Len(output.value.records) :
                \E i \in 1..Len(doc[t]) : output.value.records[n].sourceRow = doc[t][i]

Witness_C20 ==
    /\ Returned("parseSefazHtml")
    /\ output.value.ok
    /\ Len(output.arg) = 2
    /\ Cardinality(QualifyingHeaderRows(output.arg[1])) = 2
    /\ QualifyingTables(output.arg) = {1, 2}
    /\ output.target = [table |-> 1, row |-> 1]
    /\ Len(output.value.records) = 1
    /\ output.value.records[1].chave = Key2
    /\ output.value.records[1].situacao = <<"C", "a", "n", "c", "e", "l", "a", "d", "a">>

-----------------------------------------------------------------------------
(* Properties of the role map and of the row loop of parseSefazHtml        *)

ParsedSefaz == Returned("parseSefazHtml") /\ output.value.ok

\* the row the call chose as header row
HeaderRowChosen == output.arg[output.target.table][output.target.row]

RolePriority == <<"chave", "situacao", "numero", "serie", "emitente", "data">>

\* the test of one role on a normalized header text
RoleHolds(role, txt) ==
    CASE role = "chave" -> includes(txt, Chave)
      [] role = "situacao" -> includes(txt, Situacao)
      [] role = "numero" -> includes(txt, <<"n", "u", "m", "e", "r", "o">>) \/ txt = <<"n", "o", "t", "a">>
      [] role = "serie" -> includes(txt, <<"s", "e", "r", "i", "e">>)
      [] role = "emitente" -> /\ includes(txt, <<"e", "m", "i", "t", "e", "n", "t", "e">>)
                              /\ ~includes(txt, <<"c", "n", "p", "j">>)
      [] role = "data" -> includes(txt, <<"d", "a", "t", "a">>)
                          \/ includes(txt, <<"e", "m", "i", "s", "s", "a", "o">>)

\* the first role, in the order of priority, whose test the text passes
RoleOfCell(txt) ==
    LET passed == {k \in 1..6 : RoleHolds(RolePriority[k], txt)}
    IN IF passed = {} THEN "none" ELSE RolePriority[Least(passed)]

\* C21: in the role map each header cell index has at most one role, the
\* first that fits in the order key, status, number, series, issuer, date;
\* a cell with 'emitente' and 'cnpj' does not get the issuer role.
Theorem_C21 ==
    ParsedSefaz
    => LET header == HeaderRowChosen
           map    == output.headerMap
           txt(i) == normalizeHeader(header[i])
       IN /\ \A role \in HeaderRoles :
                IF \E i \in 1..Len(header) : RoleOfCell(txt(i)) = role
                THEN /\ map[role] \in 1..Len(header)
                     /\ RoleOfCell(txt(map[role])) = role
                ELSE map[role] = NotFound
          /\ \A r1, r2 \in HeaderRoles :
                r1 # r2 /\ map[r1] # NotFound => map[r1] # map[r2]
          /\ \A i \in 1..Len(header) :
                /\ includes(txt(i), <<"e", "m", "i", "t", "e", "n", "t", "e">>)
                /\ includes(txt(i), <<"c", "n", "p", "j">>)
                => map["emitente"] # i

Witness_C21 ==
    /\ ParsedSefaz
    /\ Len(HeaderRowChosen) = 8
    /\ output.headerMap = [chave |-> 1, situacao |-> 2, numero |-> 8, serie |-> 4,
                           emitente |-> 5, data |-> 7]

\* the rows of the table with at least 3 cells, whose key cell does not
\* hold the word 'chave' and has more than 20 digits
RECURSIVE GatedRows(_, _, _)
GatedRows(table, i, keyColumn) ==
    IF i > Len(table) THEN <<>>
    ELSE LET row == table[i]
             keyText == IF keyColumn \in 1..Len(row) THEN row[keyColumn] ELSE <<>>
             passes == /\ Len(row) >= 3
                       /\ ~includes(toLowerCase(keyText), Chave)
                       /\ DigitCount(keyText) > 20
         IN (IF passes THEN <<row>> ELSE <<>>) \o GatedRows(table, i + 1, keyColumn)

\* C22: parseSefazHtml emits, in row order, exactly the rows of the target
\* table that have at least 3 cells, are not filtered as header and whose
\* canonical key has more than 20 digits; every record has a digits-only
\* key of 21 digits or more, and keys of 21 to 43 digits are accepted.
Theorem_C22 ==
    ParsedSefaz
    => LET rows == GatedRows(output.arg[output.target.table], 1, output.headerMap["chave"])
           recs == output.value.records
       IN /\ Len(recs) = Len(rows)
          /\ \A n \in 1..Len(recs) :
                /\ recs[n].sourceRow = rows[n]
                /\ recs[n].chave = DigitsOf(rows[n][output.headerMap["chave"]])
                /\ Len(recs[n].chave) >= 21

Witness_C22 ==
    /\ ParsedSefaz
    /\ Len(output.arg[output.target.table]) = 7
    /\ Len(output.value.records) = 3
    /\ output.value.records[1].chave = Key30
    /\ output.value.records[2].chave = Key21
    /\ output.value.records[3].chave = Key1

\* C23: the row chosen as header row never yields a record, whatever the
\* wording of its cells that the header search accepts.
Claim_C23 ==
    ParsedSefaz
    => \A n \in 1..Len(output.value.records) :
          output.value.records[n].sourceRow # HeaderRowChosen

\* C28: when a target table is selected, the role map resolves the key
\* role and the status role, to two different columns.
Claim_C28 ==
    ParsedSefaz
    => /\ output.headerMap["chave"] # NotFound
       /\ output.headerMap["situacao"] # NotFound
       /\ output.headerMap["chave"] # output.headerMap["situacao"]

-----------------------------------------------------------------------------
(* The two parsers side by side: the file is a sheet or a page, and the    *)
(* parser of its format runs on it                                         *)

InitParse == InitParseAccounting \/ InitParseSefaz

NextParse == callParseAccountingFile \/ callParseSefazHtml

SpecParse == InitParse /\ [][NextParse]_vars

\* MM/20YY of a key of exactly 44 digits, no date for any other key
DateOfKey(key) ==
    IF Len(key) = 44 THEN <<key[5], key[6], "/", "2", "0", key[3], key[4]>> ELSE <<>>

\* the text of the cell of a column in a row: empty when the column is not
\* resolved or the row has no such cell
TextAt(row, column) ==
    IF column \in 1..Len(row) /\ row[column] # Undefined THEN row[column] ELSE <<>>

\* C24: in both extractors the date of a record is the text of its date
\* cell (trimmed, in the page) when the date role is resolved and that text
\* is not empty, and otherwise the date read from its canonical key, which
\* is empty unless the key has exactly 44 digits.
Theorem_C24 ==
    /\ Parsed
       => \A n \in 1..Len(output.value.records) :
             LET rec  == output.value.records[n]
                 cell == TextAt(rec.sourceRow, output.columns.data)
             IN rec.dataEmissao = IF cell # <<>> THEN cell ELSE DateOfKey(rec.chave)
    /\ ParsedSefaz
       => \A n \in 1..Len(output.value.records) :
             LET rec  == output.value.records[n]
                 cell == trim(TextAt(rec.sourceRow, output.headerMap["data"]))
             IN rec.data = IF cell # <<>> THEN cell ELSE DateOfKey(rec.chave)

\* a sheet row with a 44-digit key and a date cell, and one with a 44-digit
\* key and no date cell; or a page with a dated row, a row with a blank date
\* cell and a 21-digit key, and a row with an empty date cell and a
\* 44-digit key
Witness_C24 ==
    \/ /\ Parsed
       /\ output.columns.data = 4
       /\ Len(output.value.records) = 2
       /\ output.value.records[1].dataEmissao = <<"0", "1", "/", "0", "3", "/", "2", "0", "2", "4">>
       /\ output.value.records[1].chave = Key1
       /\ Len(output.value.records[2].sourceRow) = 3
       /\ output.value.records[2].dataEmissao = <<"0", "3", "/", "2", "0", "2", "4">>
    \/ /\ ParsedSefaz
       /\ output.headerMap["data"] = 7
       /\ Len(output.value.records) = 3
       /\ output.value.records[1].data = <<"0", "5", "/", "0", "1", "/", "2", "0", "2", "5">>
       /\ output.value.records[2].data = <<>>
       /\ output.value.records[3].data = <<"0", "3", "/", "2", "0", "2", "4">>

-----------------------------------------------------------------------------
(* Properties of the uploads and of the comparison on display              *)

\* the parse a pending upload started fails
FailsToParse(task) ==
    IF task.kind = "accounting" THEN ~AccountingParse[task.files[1]].ok
    ELSE \A policy \in DedupPolicies : ~SefazFilesParse[task.files, policy].ok

\* C25: when the extraction started by an upload fails, the error message
\* is set and the two lists, the two file names, the results and isCompared
\* are left as they were; a new upload can be started afterwards.
Theorem_C25 ==
    [][\A task \in pending :
          pending' = pending \ {task} /\ FailsToParse(task)
          => /\ error' # NoError
             /\ UNCHANGED <<accountingData, sefazData, accountingFileName, sefazFileName,
                            results, isCompared>>
             /\ Cardinality(pending') < MaxPending]_vars

Witness_C25 ==
    /\ error # NoError
    /\ error[1] = "Erro no arquivo contabil: "
    /\ accountingData # <<>>
    /\ accountingFileName = "contabil.xlsx"
    /\ isCompared
    /\ results # <<>>

\* C26: whenever isCompared is true the results are the reconciliation of
\* the ledger list and the authority list held now, after any uploads
\* (successful or failed) and comparisons.
Theorem_C26 ==
    isCompared
    => results = IF build = "App.tsx" THEN comparisonApp(accountingData, sefazData)
                 ELSE comparison002(accountingData, sefazData)

Witness_C26 ==
    /\ isCompared
    /\ error # NoError
    /\ error[1] = "Erro nos arquivos SEFAZ: "
    /\ sefazFileName = "2 arquivos selecionados"
    /\ Len(results) > 1
    /\ pending = {}

-----------------------------------------------------------------------------
(* The uploads on their own, with the selections recorded                  *)

InitUpload ==
    /\ build \in Builds
    /\ accountingData = <<>>
    /\ sefazData = <<>>
    /\ results = <<>>
    /\ isCompared = FALSE
    /\ currentPage = 1
    /\ accountingFileName = ""
    /\ sefazFileName = ""
    /\ error = NoError
    /\ pending = {}
    /\ lastRun = NoRun
    /\ selected = [accounting |-> <<>>, sefaz |-> <<>>]
    /\ InitView
    /\ input = NoInput
    /\ output = NoOutput

NextUpload ==
    \/ \E name \in AccountingFileNames : handleAccountingUpload(name)
    \/ \E task \in pending : resumeAccountingUpload(task)
    \/ \E sel \in SefazSelections : handleSefazUpload(sel)
    \/ \E task \in pending, policy \in DedupPolicies : resumeSefazUpload(task, policy)

SpecUpload == InitUpload /\ [][NextUpload]_vars

\* no parse of that input is in flight
Settled(kind) == \A task \in pending : task.kind # kind

\* C27: once the parses started at an input have all completed, in any
\* order, the list and the file name held are those of the files selected
\* last at that input (when they parse); and the list and the file name
\* held always come from the same selection.
Claim_C27 ==
    /\ Settled("accounting") /\ selected.accounting # <<>>
       /\ AccountingParse[selected.accounting[1]].ok
       => /\ accountingFileName = selected.accounting[1]
          /\ accountingData = AccountingParse[selected.accounting[1]].records
    /\ Settled("sefaz") /\ selected.sefaz # <<>>
       /\ (\A policy \in DedupPolicies : SefazFilesParse[selected.sefaz, policy].ok)
       => /\ sefazFileName = SelectedText(selected.sefaz)
          /\ \E policy \in DedupPolicies :
                sefazData = SefazFilesParse[selected.sefaz, policy].records
    /\ accountingFileName # ""
       => accountingData = AccountingParse[accountingFileName].records
    /\ sefazFileName # ""
       => \E sel \in SefazSelections, policy \in DedupPolicies :
             /\ SelectedText(sel) = sefazFileName
             /\ SefazFilesParse[sel, policy].ok
             /\ sefazData = SefazFilesParse[sel, policy].records

-----------------------------------------------------------------------------
(* The PDF export of the results on display                                *)

\* the predicate of results.filter in handleExportPDF
isPending(r) ==
    /\ r.status = MISSING_IN_ACCOUNTING
    /\ ~includes(toLowerCase(r.situacaoSefaz), cancelada)

ExportTitle(onlyPending) ==
    IF onlyPending THEN "Relatorio de Pendencias (Nao Lancadas)"
    ELSE "Relatorio Completo de Confronto"

\* mutant: the filter drops its test of the status
handleExportPDF_notCancelled(onlyPending) ==
    /\ isCompared
    /\ LET keep(r) == ~includes(toLowerCase(r.situacaoSefaz), cancelada)
           dataToExport == IF onlyPending THEN SelectSeq(results, keep) ELSE results
       IN output' = [fn |-> "handleExportPDF", arg |-> onlyPending, results |-> results,
                     value |-> dataToExport, title |-> ExportTitle(onlyPending)]
    /\ UNCHANGED <<appVars, input>>

\* one click on an export button (shown with the results): output is the
\* list and the title handed to exportToPdf, with the results they were
\* taken from
handleExportPDF(onlyPending) ==
    /\ isCompared
    /\ LET dataToExport == IF onlyPending THEN SelectSeq(results, isPending) ELSE results
       IN output' = [fn |-> "handleExportPDF", arg |-> onlyPending, results |-> results,
                     value |-> dataToExport, title |-> ExportTitle(onlyPending)]
    /\ UNCHANGED <<appVars, input>>

\* the ledger lists of the files a user can select, and no list
ExportLedgers ==
    {<<>>} \cup {AccountingParse[name].records :
                    name \in {n \in AccountingFileNames : AccountingParse[n].ok}}

InitExport ==
    /\ build \in Builds
    /\ accountingData \in ExportLedgers
    /\ sefazData \in AuthorityLists
    /\ results = <<>>
    /\ isCompared = FALSE
    /\ currentPage = 1
    /\ accountingFileName = ""
    /\ sefazFileName = ""
    /\ error = NoError
    /\ pending = {}
    /\ lastRun = NoRun
    /\ selected = NotRecorded
    /\ InitView
    /\ input = NoInput
    /\ output = NoOutput

NextExport ==
    \/ handleCompare
    \/ handleCompare002
    \/ \E onlyPending \in BOOLEAN : handleExportPDF(onlyPending)

SpecExport == InitExport /\ [][NextExport]_vars

NotBooked(r) == r.status = MISSING_IN_ACCOUNTING

\* C29: a result made from an authority record is Cancelled exactly when
\* its status text holds 'cancelada' in any case, so no result that is not
\* booked has such a text, and the export of the pending results is the
\* list of the results that are not booked, in the order of the results.
Theorem_C29 ==
    /\ isCompared
       => \A j \in 1..Len(results) :
             /\ results[j].sefazRecord # NoRecord
                => (results[j].status = CANCELLED <=> HasCancelada(results[j].situacaoSefaz))
             /\ NotBooked(results[j]) => ~HasCancelada(results[j].situacaoSefaz)
    /\ Returned("handleExportPDF")
       => output.value = IF output.arg THEN SelectSeq(output.results, NotBooked)
                         ELSE output.results

Witness_C29 ==
    /\ Returned("handleExportPDF")
    /\ output.arg
    /\ output.results = results
    /\ Len(output.value) = 1
    /\ output.value[1].status = MISSING_IN_ACCOUNTING
    /\ \E i \in 1..Len(results) :
          /\ results[i].status = CANCELLED
          /\ results[i].accountingRecord = NoRecord

-----------------------------------------------------------------------------
(* The results table: filters, sort and pages                              *)

itemsPerPage == 100

MaxResults == 201

max(a, b) == IF a >= b THEN a ELSE b
min(a, b) == IF a <= b THEN a ELSE b

DigitChars == <<"0", "1", "2", "3", "4", "5", "6", "7", "8", "9">>

\* the decimal digits of a natural number
RECURSIVE NatText(_)
NatText(n) == IF n < 10 THEN <<DigitChars[n + 1]>>
              ELSE NatText(n \div 10) \o <<DigitChars[(n % 10) + 1]>>

\* a 44-digit key for note i (i < 1000): the last three digits are i
PageKey(i) ==
    SubSeq(Key1, 1, 41) \o <<DigitChars[(i \div 100) + 1], DigitChars[((i \div 10) % 10) + 1],
                             DigitChars[(i % 10) + 1]>>

\* row i of an export of the authority: every seventh note is cancelled,
\* the series alternates
PageRow(i) ==
    <<PageKey(i),
      IF i % 7 = 0 THEN <<"C", "a", "n", "c", "e", "l", "a", "d", "a">>
      ELSE <<"A", "u", "t", "o", "r", "i", "z", "a", "d", "a">>,
      NatText(i),
      IF i % 2 = 0 THEN <<"1">> ELSE <<"2">>,
      <<>>>>

\* the authority list read from an export of n notes under the usual
\* header: one record for each row, in the order of the rows
PageList(n) == [i \in 1..n |-> sefazRow(PageRow(i), buildHeaderMap(SefazHeader))[1]]

\* the sizes of the export: none, one, a full page, one more than a page,
\* more than two pages
PageSizes == {0, 1, itemsPerPage, itemsPerPage + 1, MaxResults}

\* a ledger that books every fourth of the first forty notes, and one note
\* the authority does not list
PageLedger ==
    parseAccountingFile(<<LedgerHeader>>
                        \o [j \in 1..10 |-> <<PageKey(4 * j), NatText(4 * j), <<"1", "0", ",", "0", "0">>>>]
                        \o << <<Key3, <<"9", "9", "9">>, <<"5", ",", "5">>>> >>).records

\* src/App.tsx, the revision with the sort
InitPages ==
    /\ build = "App.tsx"
    /\ accountingData = PageLedger
    /\ \E n \in PageSizes : sefazData = PageList(n)
    /\ results = <<>>
    /\ isCompared = FALSE
    /\ currentPage = 1
    /\ accountingFileName = "contabil.xlsx"
    /\ sefazFileName = "sefaz.html"
    /\ error = NoError
    /\ pending = {}
    /\ lastRun = NoRun
    /\ selected = NotRecorded
    /\ InitView
    /\ input = NoInput
    /\ output = NoOutput

\* the texts typed in the search box: one that is part of a status text in
\* another case, one that no result holds
FilterTexts == { <<>>, <<"C", "A", "N", "C">>, <<"z", "z">> }

\* the values of the options of the status select
StatusOptions == {"all", MATCHED, MISSING_IN_ACCOUNTING, CANCELLED}

\* the columns sorted here, of the six sortable ones
SortKeys == {"status", "serie"}

\* the predicate of results.filter
matchesFilters(r) ==
    LET lowered == toLowerCase(filterText)
        matchesText ==
            \/ r.numero # Undefined /\ includes(toLowerCase(r.numero), lowered)
            \/ r.chave # Undefined /\ includes(r.chave, filterText)
            \/ r.situacaoSefaz # Undefined /\ includes(toLowerCase(r.situacaoSefaz), lowered)
        matchesStatus == statusFilter = "all" \/ r.status = statusFilter
    IN matchesText /\ matchesStatus

\* the values of the enum MatchStatus in the order of < on strings:
\* 'Cancelada', 'Lancada', 'Nao Lancada', 'Nao encontrada na SEFAZ'
StatusOrder == <<CANCELLED, MATCHED, MISSING_IN_ACCOUNTING, MISSING_IN_SEFAZ>>

\* a < b on two strings of digits (the order of the code units)
RECURSIVE digitsLess(_, _)
digitsLess(a, b) ==
    IF Len(b) = 0 THEN FALSE
    ELSE IF Len(a) = 0 THEN TRUE
    ELSE IF a[1] # b[1] THEN DigitValue(a[1]) < DigitValue(b[1])
    ELSE digitsLess(Tail(a), Tail(b))

\* aValue < bValue for the values of a sorted column
valueLess(key, a, b) ==
    IF key = "status"
    THEN \E i, j \in 1..4 : i < j /\ StatusOrder[i] = a /\ StatusOrder[j] = b
    ELSE digitsLess(a, b)

\* [...data].sort(compare): the sort is stable and compare gives 0 for equal
\* values, so the rows of one value keep their order and the values follow
\* each other in ascending or descending order
RECURSIVE sortedFrom(_, _, _, _)
sortedFrom(data, key, direction, values) ==
    IF values = {} THEN <<>>
    ELSE LET first == CHOOSE v \in values :
                         \A w \in values \ {v} :
                            IF direction = "asc" THEN valueLess(key, v, w)
                            ELSE valueLess(key, w, v)
             hasFirst(r) == r[key] = first
         IN SelectSeq(data, hasFirst) \o sortedFrom(data, key, direction, values \ {first})

sorted(data, config) ==
    sortedFrom(data, config.key, config.direction,
               {data[i][config.key] : i \in 1..Len(data)})

\* useMemo: filter, then sort (the older revision has no sort)
processedResults ==
    LET data == SelectSeq(results, matchesFilters)
    IN IF build = "App.tsx" /\ sortConfig # NoSort THEN sorted(data, sortConfig) ELSE data

\* Math.ceil(processedResults.length / itemsPerPage)
totalPagesOf(data) == (Len(data) + itemsPerPage - 1) \div itemsPerPage

\* Array.prototype.slice(start, end) with 0 <= start <= end
slice(data, start, end) == SubSeq(data, start + 1, min(end, Len(data)))

paginatedDataOf(data) == slice(data, (currentPage - 1) * itemsPerPage, currentPage * itemsPerPage)

\* the search box changes: the effect on [filterText, statusFilter] runs
\* after the render and resets the page
setFilterText(text) ==
    /\ isCompared
    /\ text # filterText
    /\ filterText' = text
    /\ currentPage' = 1
    /\ UNCHANGED <<build, accountingData, sefazData, results, isCompared, accountingFileName,
                   sefazFileName, error, pending, lastRun, selected, sortConfig, statusFilter,
                   input, output>>

\* mutant: the effect does not depend on statusFilter
setStatusFilter_noReset(status) ==
    /\ isCompared
    /\ status # statusFilter
    /\ statusFilter' = status
    /\ UNCHANGED currentPage
    /\ UNCHANGED <<build, accountingData, sefazData, results, isCompared, accountingFileName,
                   sefazFileName, error, pending, lastRun, selected, sortConfig, filterText,
                   input, output>>

\* the status select changes, and the same effect runs
setStatusFilter(status) ==
    /\ isCompared
    /\ status # statusFilter
    /\ statusFilter' = status
    /\ currentPage' = 1
    /\ UNCHANGED <<build, accountingData, sefazData, results, isCompared, accountingFileName,
                   sefazFileName, error, pending, lastRun, selected, sortConfig, filterText,
                   input, output>>

\* a click on a column header (src/App.tsx only)
handleSort(key) ==
    /\ isCompared
    /\ build = "App.tsx"
    /\ LET direction == IF sortConfig # NoSort /\ sortConfig.key = key
                           /\ sortConfig.direction = "asc"
                        THEN "desc" ELSE "asc"
       IN sortConfig' = [key |-> key, direction |-> direction]
    /\ UNCHANGED <<build, accountingData, sefazData, results, isCompared, currentPage,
                   accountingFileName, sefazFileName, error, pending, lastRun, selected,
                   filterText, statusFilter, input, output>>

\* the button 'next page': shown when there are rows, disabled on the last page
nextPage ==
    LET totalPages == totalPagesOf(processedResults) IN
    /\ isCompared
    /\ Len(processedResults) > 0
    /\ currentPage # totalPages
    /\ currentPage' = min(totalPages, currentPage + 1)
    /\ UNCHANGED <<build, accountingData, sefazData, results, isCompared, accountingFileName,
                   sefazFileName, error, pending, lastRun, selected, viewVars, input, output>>

\* the button 'previous page': disabled on page 1
previousPage ==
    /\ isCompared
    /\ Len(processedResults) > 0
    /\ currentPage # 1
    /\ currentPage' = max(1, currentPage - 1)
    /\ UNCHANGED <<build, accountingData, sefazData, results, isCompared, accountingFileName,
                   sefazFileName, error, pending, lastRun, selected, viewVars, input, output>>

NextPages ==
    \/ handleCompare
    \/ \E text \in FilterTexts : setFilterText(text)
    \/ \E status \in StatusOptions : setStatusFilter(status)
    \/ \E key \in SortKeys : handleSort(key)
    \/ nextPage
    \/ previousPage

SpecPages == InitPages /\ [][NextPages]_vars

\* the page number is in range and the page shown is the run of at most
\* itemsPerPage rows of the filtered and sorted results that starts at row
\* (currentPage - 1) * itemsPerPage
PageInRange ==
    LET data == processedResults
        page == paginatedDataOf(data)
        start == (currentPage - 1) * itemsPerPage
    IN /\ currentPage >= 1
       /\ currentPage <= max(1, totalPagesOf(data))
       /\ Len(page) <= itemsPerPage
       /\ Len(page) = min(itemsPerPage, Len(data) - start)
       /\ Len(data) > 0 => Len(page) >= 1
       /\ \A k \in 1..Len(page) : page[k] = data[start + k]

\* a new comparison and a change of a filter put the table on page 1
PageReset ==
    lastRun' # lastRun \/ filterText' # filterText \/ statusFilter' # statusFilter
    => currentPage' = 1

\* C30: after any sequence of comparisons, filter changes, sorts and page
\* changes, currentPage is at least 1 and at most max(1, totalPages), the
\* page shown is the slice of at most 100 consecutive rows of the filtered
\* and sorted results that starts at (currentPage - 1) * 100, and a new
\* comparison or a filter change sets currentPage to 1.
Theorem_C30 == [](isCompared => PageInRange) /\ [][PageReset]_vars

Witness_C30 ==
    /\ isCompared
    /\ build = "App.tsx"
    /\ statusFilter = MISSING_IN_ACCOUNTING
    /\ sortConfig = [key |-> "serie", direction |-> "desc"]
    /\ currentPage = 2
    /\ totalPagesOf(processedResults) = 2
    /\ Len(paginatedDataOf(processedResults)) \in 1..(itemsPerPage - 1)
    /\ processedResults[1].serie = <<"2">>
    /\ lastRun.repeated

====
